---------------------------- MODULE Spec2Model ----------------------------
(***************************************************************************)
(* The chat room of src/projects/makemore/api/api.py: the message store    *)
(* (chat_messages, chat_generating, chat_storage.json), the line parser    *)
(* (parse_first_message), the generation attempt                           *)
(* (generate_chat_message_background), the scheduler (periodic_generation, *)
(* lifespan) and the HTTP handlers (get_chat_messages, send_chat_message,  *)
(* get_chat_status), run by one asyncio event loop.                        *)
(*                                                                         *)
(* Text is a sequence of one-character strings.  A generated text is the   *)
(* sequence of its lines (what text.split("\n") returns).                  *)
(***************************************************************************)
EXTENDS Integers, Sequences, FiniteSets, TLC

(***************************************************************************)
(* Python values                                                           *)
(***************************************************************************)
\* Python's None, where a string is expected (Optional[str]).
None == "None"

Min(a, b) == IF a < b THEN a ELSE b

Max(a, b) == IF a > b THEN a ELSE b

\* s[a:b] of a Python list or str, with 0 <= a and 0 <= b (0-based, b excluded).
Slice(s, a, b) == SubSeq(s, a + 1, Min(b, Len(s)))

\* s[-n:] of a Python list, n > 0.
LastN(s, n) == Slice(s, Max(0, Len(s) - n), Len(s))

IsPrefix(s, t) == Len(s) <= Len(t) /\ SubSeq(t, 1, Len(s)) = s

(***************************************************************************)
(* Characters                                                              *)
(***************************************************************************)
Digits == {"0", "1", "2", "3", "4", "5", "6", "7", "8", "9"}

\* The characters str.strip() removes and \s matches.
Whitespace == {" ", "\t", "\r"}

\* U+200E LEFT-TO-RIGHT MARK, written by WhatsApp before some sender names.
LRM == "<LRM>"

UpperToLower ==
  [A |-> "a", B |-> "b", C |-> "c", D |-> "d", E |-> "e", F |-> "f", G |-> "g",
   H |-> "h", I |-> "i", J |-> "j", K |-> "k", L |-> "l", M |-> "m", N |-> "n",
   O |-> "o", P |-> "p", Q |-> "q", R |-> "r", S |-> "s", T |-> "t", U |-> "u",
   V |-> "v", W |-> "w", X |-> "x", Y |-> "y", Z |-> "z"]

\* str.lower()
Lower(s) == [i \in 1..Len(s) |-> IF s[i] \in DOMAIN UpperToLower THEN UpperToLower[s[i]] ELSE s[i]]

\* The number of leading characters of s that are in cs.
RECURSIVE LeadingIn(_, _)
LeadingIn(s, cs) ==
  IF s = <<>> \/ Head(s) \notin cs THEN 0 ELSE 1 + LeadingIn(Tail(s), cs)

\* The number of trailing characters of s that are in cs.
RECURSIVE TrailingIn(_, _)
TrailingIn(s, cs) ==
  IF s = <<>> \/ s[Len(s)] \notin cs THEN 0
  ELSE 1 + TrailingIn(SubSeq(s, 1, Len(s) - 1), cs)

\* str.lstrip(cs)
LStrip(s, cs) == SubSeq(s, LeadingIn(s, cs) + 1, Len(s))

\* str.rstrip(cs)
RStrip(s, cs) == SubSeq(s, 1, Len(s) - TrailingIn(s, cs))

\* str.strip()
Strip(s) == RStrip(LStrip(s, Whitespace), Whitespace)

\* s.startswith(p)
StartsWith(s, p) == IsPrefix(p, s)

\* p in s, for strings
Contains(s, p) == \E i \in 0..(Len(s) - Len(p)) : SubSeq(s, i + 1, i + Len(p)) = p

(***************************************************************************)
(* parse_first_message: the two regular expressions                        *)
(***************************************************************************)
\* One item of a pattern: between lo and hi characters of cls, as many as the
\* rest of the pattern allows (greedy); "optsec" is the group (?::\d{1,2})?.
Item(kind, cls, lo, hi) == [kind |-> kind, cls |-> cls, lo |-> lo, hi |-> hi]

Unbounded == -1

\* ^\[?(\d{1,2}/\d{1,2}/\d{2,4}),?\s*(\d{1,2}:\d{1,2}(?::\d{1,2})?)\]?\s*
\* up to the start of group 3; brackets = FALSE gives the second pattern.
Prefix(brackets) ==
  (IF brackets THEN <<Item("rep", {"["}, 0, 1)>> ELSE <<>>) \o
  << Item("rep", Digits, 1, 2), Item("rep", {"/"}, 1, 1),
     Item("rep", Digits, 1, 2), Item("rep", {"/"}, 1, 1),
     Item("rep", Digits, 2, 4),
     Item("rep", {","}, 0, 1), Item("rep", Whitespace, 0, Unbounded),
     Item("rep", Digits, 1, 2), Item("rep", {":"}, 1, 1),
     Item("rep", Digits, 1, 2), Item("optsec", {}, 0, 0) >> \o
  (IF brackets THEN <<Item("rep", {"]"}, 0, 1)>> ELSE <<>>) \o
  << Item("rep", Whitespace, 0, Unbounded) >>

\* The index (1-based) of the first ":" of line at or after position q, 0 if none.
RECURSIVE FirstColon(_, _)
FirstColon(line, q) ==
  IF q > Len(line) THEN 0
  ELSE IF line[q] = ":" THEN q ELSE FirstColon(line, q + 1)

\* ([^:]+):\s*(.+)$ matches from position q: group 3 is not empty and runs to
\* the first ":", and at least one character follows that ":".
TailMatches(line, q) ==
  /\ q <= Len(line)
  /\ line[q] # ":"
  /\ FirstColon(line, q) # 0
  /\ FirstColon(line, q) < Len(line)

\* The positions at which items i.. of pat and then group 3 start, in the first
\* match the backtracking search of re.match finds from position pos; <<>> if
\* there is none.
RECURSIVE MatchFrom(_, _, _, _)
RECURSIVE TryCount(_, _, _, _, _)
MatchFrom(line, pat, i, pos) ==
  IF i > Len(pat) THEN (IF TailMatches(line, pos) THEN <<pos>> ELSE <<>>)
  ELSE IF pat[i].kind = "optsec" THEN
    LET isDigit(p) == p <= Len(line) /\ line[p] \in Digits
        colon == pos <= Len(line) /\ line[pos] = ":"
        two  == IF colon /\ isDigit(pos + 1) /\ isDigit(pos + 2)
                THEN MatchFrom(line, pat, i + 1, pos + 3) ELSE <<>>
        one  == IF colon /\ isDigit(pos + 1)
                THEN MatchFrom(line, pat, i + 1, pos + 2) ELSE <<>>
        skip == MatchFrom(line, pat, i + 1, pos)
        rest == IF two # <<>> THEN two ELSE IF one # <<>> THEN one ELSE skip
    IN IF rest = <<>> THEN <<>> ELSE <<pos>> \o rest
  ELSE
    LET run == LeadingIn(SubSeq(line, pos, Len(line)), pat[i].cls)
        most == IF pat[i].hi = Unbounded THEN run ELSE Min(run, pat[i].hi)
    IN TryCount(line, pat, i, pos, most)

\* Item i taking k characters, then k - 1, ... down to its minimum.
TryCount(line, pat, i, pos, k) ==
  IF k < pat[i].lo THEN <<>>
  ELSE LET rest == MatchFrom(line, pat, i + 1, pos + k)
       IN IF rest # <<>> THEN <<pos>> \o rest
          ELSE TryCount(line, pat, i, pos, k - 1)

\* Python's None, where a match object or a dict is expected.
NoMessage == [none |-> TRUE]

\* Group 4 within what follows the ":": \s* takes the leading whitespace, but
\* leaves .+ one character.
AfterColon(rest) ==
  SubSeq(rest, Min(LeadingIn(rest, Whitespace), Len(rest) - 1) + 1, Len(rest))

\* The four groups of a match whose items start at the positions at (the first
\* item of the date being item b + 1) and whose ":" after group 3 is at c.
Groups(line, at, b, c) ==
  [g1 |-> SubSeq(line, at[b + 1], at[b + 6] - 1),
   g2 |-> SubSeq(line, at[b + 8], at[b + 12] - 1),
   g3 |-> SubSeq(line, at[Len(at)], c - 1),
   g4 |-> AfterColon(SubSeq(line, c + 1, Len(line)))]

GroupsAt(line, at, b) ==
  IF at = <<>> THEN NoMessage
  ELSE Groups(line, at, b, FirstColon(line, at[Len(at)]))

\* re.match(pattern, line): Python's None, or the four groups.
ReMatch(brackets, line) ==
  GroupsAt(line, MatchFrom(line, Prefix(brackets), 1, 1), IF brackets THEN 1 ELSE 0)

(***************************************************************************)
(* Configuration and bounds                                                *)
(***************************************************************************)
\* The keys of CHAT_MODELS, in the order the dict lists them, as the process
\* holds them from its import on.  The module's literal has one key.
VARIABLE chat_models

ConfiguredRoom == <<"kxhl-1">>

ModelOrder == chat_models

CHAT_MODELS == {ModelOrder[i] : i \in DOMAIN ModelOrder}

\* The keys of the module's literal, as a set.
RoomIds == {ConfiguredRoom[i] : i \in DOMAIN ConfiguredRoom}

\* The room ids a request may name: the configured ones and one that is not.
RequestModelIds == CHAT_MODELS \cup {"nope"}

\* messages[-10:]
ContextWindow == 10

\* The uuid4 values the run draws, in the order it draws them.  uuid4 is taken
\* to be collision-free: no value is drawn twice, and none is an id that a
\* snapshot of an earlier run holds.
UuidPool == <<"u1", "u2", "u3", "u4", "u5", "u6", "u7", "u8">>

\* The most uuids a run draws (the most messages it appends).
MaxUuid == 2

\* The most tasks waiting in the event loop's ready queue.
MaxTasks == 2

\* The wall clock reads 0 to MaxClock seconds.
MaxClock == 1

(***************************************************************************)
(* Time                                                                    *)
(***************************************************************************)
DigitChar(n) == <<"0", "1", "2", "3", "4", "5", "6", "7", "8", "9">>[n + 1]

\* get_current_timestamp(): "[%d/%m/%Y, %H:%M:%S]" of the wall clock, which
\* stands now seconds after midnight of 01/01/2026.
GetCurrentTimestamp(now) ==
  <<"[", "0", "1", "/", "0", "1", "/", "2", "0", "2", "6", ",", " ",
    "0", "0", ":", "0", "0", ":", "0", DigitChar(now), "]">>

\* datetime.now().isoformat()
IsoFormat(now) ==
  <<"2", "0", "2", "6", "-", "0", "1", "-", "0", "1", "T",
    "0", "0", ":", "0", "0", ":", "0", DigitChar(now)>>

(***************************************************************************)
(* parse_first_message                                                     *)
(***************************************************************************)
AdminName ==
  <<"k", "i", "n", "g", "s", " ", "c", "r", "o", "s", "s", " ",
    "h", "a", "c", "k", " ", "l", "a", "b">>

SystemKeywords ==
  { <<"e", "n", "c", "r", "y", "p", "t", "e", "d">>,
    <<"c", "r", "e", "a", "t", "e", "d">>,
    <<"a", "d", "d", "e", "d">> }

\* Lines 110-114: the test for a system message.
IsSystemMessage(sender, content) ==
  /\ StartsWith(Lower(sender), AdminName)
  /\ \E kw \in SystemKeywords : Contains(Lower(content), kw)

\* Lines 109-128: the two "continue" and the message returned.
Accept(timestamp, sender, content, id, now) ==
  IF IsSystemMessage(sender, content)
  THEN NoMessage
  ELSE IF Len(content) < 2 THEN NoMessage
  ELSE [id |-> id, timestamp |-> timestamp, sender |-> sender,
        content |-> content, isUser |-> FALSE, createdAt |-> IsoFormat(now)]

\* Lines 103-128, the body of "if match:": the message returned, or NoMessage
\* when there is no match or a "continue" is taken.
FromMatch(match, id, now) ==
  IF match = NoMessage THEN NoMessage
  ELSE Accept(<<"[">> \o match.g1 \o <<",", " ">> \o match.g2 \o <<"]">>,
              LStrip(Strip(match.g3), {"~", LRM, " "}),
              Strip(match.g4), id, now)

ParseWithPattern(brackets, line, id, now) == FromMatch(ReMatch(brackets, line), id, now)

\* A variant of FirstOf: a later message found replaces an earlier one.
LastOf(first, second) == IF second # NoMessage THEN second ELSE first

\* "for pattern in patterns" on one line of the text.
FirstOf(first, second) == IF first # NoMessage THEN first ELSE second

ParseStripped(line, id, now) ==
  IF line = <<>> THEN NoMessage
  ELSE FirstOf(ParseWithPattern(TRUE, line, id, now),
               ParseWithPattern(FALSE, line, id, now))

ParseLine(rawLine, id, now) == ParseStripped(Strip(rawLine), id, now)

\* parse_first_message(text), text given as text.split("\n"); id is the uuid4
\* and now the clock the returned message takes.
RECURSIVE parse_first_message(_, _, _)
parse_first_message(lines, id, now) ==
  IF lines = <<>> THEN NoMessage
  ELSE FirstOf(ParseLine(Head(lines), id, now),
               parse_first_message(Tail(lines), id, now))

(***************************************************************************)
(* chat_storage.json                                                       *)
(***************************************************************************)
MessageKeys == <<"id", "timestamp", "sender", "content", "isUser", "createdAt">>

\* A dict as json.dump writes it: the key/value pairs it has, in the dict's
\* order.
DumpObject(d, keys) ==
  LET present == SelectSeq(keys, LAMBDA k : k \in DOMAIN d)
  IN [i \in DOMAIN present |-> <<present[i], d[present[i]]>>]

\* A JSON object as json.load reads it: a dict, the last pair of a key winning.
LoadObject(obj) ==
  LET keys == {obj[i][1] : i \in DOMAIN obj}
      last(k) == CHOOSE i \in DOMAIN obj :
                   /\ obj[i][1] = k
                   /\ \A j \in DOMAIN obj : obj[j][1] = k => j <= i
  IN [k \in keys |-> obj[last(k)][2]]

\* json.dump(chat_messages, f): the file's content after a complete write.
JsonDump(messages) ==
  [kind |-> "json",
   data |-> [r \in DOMAIN messages |->
              [i \in DOMAIN messages[r] |-> DumpObject(messages[r][i], MessageKeys)]]]

\* A variant of JsonLoad: each array is read last element first.
JsonLoadReversed(file) ==
  [r \in DOMAIN file.data |->
    [i \in DOMAIN file.data[r] |->
      LoadObject(file.data[r][Len(file.data[r]) + 1 - i])]]

\* json.load(f) of a file a complete write left.
JsonLoad(file) ==
  [r \in DOMAIN file.data |->
    [i \in DOMAIN file.data[r] |-> LoadObject(file.data[r][i])]]

NoFile == [kind |-> "absent"]

\* The file after open(..., "w") truncated it and the write stopped part-way.
PartialFile == [kind |-> "corrupt"]

\* What a call of save_chat_storage may meet: the write completes, open()
\* raises (the file is left as it was), or json.dump raises part-way.
WriteOutcomes == {"ok", "open_raises", "dump_raises"}

\* A variant of save_chat_storage: only the newest message of each room is
\* written.
save_chat_storage_newest_only(messages, file, outcome) ==
  CASE outcome = "ok" -> JsonDump([r \in DOMAIN messages |-> LastN(messages[r], 1)])
    [] outcome = "open_raises" -> file
    [] outcome = "dump_raises" -> PartialFile

\* A variant of save_chat_storage: the newest message of each room is added
\* to what the file holds.
save_chat_storage_delta(messages, file, outcome) ==
  CASE outcome = "ok" ->
         JsonDump([r \in DOMAIN messages |->
                    (IF file.kind = "json" /\ r \in DOMAIN file.data
                     THEN JsonLoad(file)[r] ELSE <<>>)
                    \o LastN(messages[r], 1)])
    [] outcome = "open_raises" -> file
    [] outcome = "dump_raises" -> PartialFile

\* save_chat_storage(): the file afterwards.  Every exception is caught.
save_chat_storage(messages, file, outcome) ==
  CASE outcome = "ok" -> JsonDump(messages)
    [] outcome = "open_raises" -> file
    [] outcome = "dump_raises" -> PartialFile

\* A file that json.load reads, and that holds an array, not an object.
ArrayFile == [kind |-> "array"]

\* A file that json.load reads, and whose object maps each configured room to
\* an array of one object that has none of a message's keys: {"kxhl-1": [{}]}
FieldlessFile == [kind |-> "json", data |-> [r \in CHAT_MODELS |-> << <<>> >>]]

\* load_chat_storage(): chat_messages afterwards.  json.load raises on a
\* truncated file, and line 56 (.values()) raises on an array: both are caught
\* at line 58 and leave {}.  Line 56 passes on an object whose values are
\* arrays, whatever the arrays hold.
load_chat_storage(file) ==
  LET loaded == IF file.kind = "json" THEN JsonLoad(file) ELSE <<>>
  IN [r \in (DOMAIN loaded) \cup CHAT_MODELS |->
       IF r \in DOMAIN loaded THEN loaded[r] ELSE <<>>]

(***************************************************************************)
(* State                                                                   *)
(***************************************************************************)
VARIABLES
  phase,            \* "import": before lifespan's startup; "serving"; "stopped"
  chat_messages,    \* model_id -> list of messages
  chat_generating,  \* model_id -> is_generating
  storage,          \* the content of CHAT_STORAGE_FILE
  tasks,            \* the tasks asyncio.create_task queued, oldest first
  attempts,         \* the attempts that passed line 142 and have not returned
  uuid_counter,     \* how many uuid4 values were drawn
  clock,            \* the wall clock, as last read
  event,            \* the step just taken: its request and what it returned
  pager,            \* a client paging back through one room with "before"
  peer              \* another worker process beside the same file, if any

vars == <<chat_models, phase, chat_messages, chat_generating, storage, tasks, attempts,
          uuid_counter, clock, event, pager, peer>>

\* One process serves: "python api.py", or uvicorn without --workers.
NoPeer == [state |-> "absent"]

\* A variant of Uuid4: one id, made once, for every message.
Uuid4MadeOnce == UuidPool[1]

\* str(uuid.uuid4())
Uuid4 == UuidPool[uuid_counter + 1]

\* dict.get(key, default)
DictGet(d, key, default) == IF key \in DOMAIN d THEN d[key] ELSE default

\* d[key] = value
DictSet(d, key, value) == [k \in (DOMAIN d) \cup {key} |-> IF k = key THEN value ELSE d[k]]

(***************************************************************************)
(* The event loop                                                          *)
(***************************************************************************)
\* Whether an attempt waiting for the generator gives up the event loop.
\* generate_gpt_chat is called, not awaited, and the coroutine holds no await.
\* A variant of GeneratorYields: the generator is awaited.
GeneratorYieldsToLoop == TRUE

GeneratorYields == FALSE

\* The event loop may start another callback: no coroutine is running.
LoopIdle == \A i \in DOMAIN attempts : attempts[i].pc = "generate" /\ GeneratorYields

\* The i-th attempt may run: the event loop runs one coroutine at a time.
OthersSuspended(i) == \A j \in DOMAIN attempts : j # i => attempts[j].pc = "generate"

\* A trigger of model_id is waiting in the queue or its attempt is running.
Unfinished(model_id) ==
  \/ \E i \in DOMAIN tasks : tasks[i].model_id = model_id
  \/ \E i \in DOMAIN attempts : attempts[i].model_id = model_id

\* A variant of CreateTasks: no task is created.
CreateTasksNone(q, ids, origin, sent) == q

\* asyncio.create_task(generate_chat_message_background(model_id)) for each
\* model_id of ids in turn, onto queue q; origin is "startup" for lifespan's
\* tasks, "tick" for periodic_generation's, "send" for send_chat_message's
\* and "call" for a call of the coroutine as such,
\* and sent is then the id of the message the handler appended (None for the
\* others).  overlap records whether another trigger of the room was then
\* unfinished.
RECURSIVE CreateTasks(_, _, _, _)
CreateTasks(q, ids, origin, sent) ==
  IF ids = <<>> THEN q
  ELSE CreateTasks(
         Append(q, [model_id |-> Head(ids), origin |-> origin, sent |-> sent,
                    overlap |-> \/ Unfinished(Head(ids))
                                \/ \E i \in DOMAIN q : q[i].model_id = Head(ids)]),
         Tail(ids), origin, sent)

\* The tasks lifespan created run in the event loop's next iteration, before
\* the server accepts a request and long before the first sleep ends.
StartupTasksRan == \A i \in DOMAIN tasks : tasks[i].origin # "startup"

\* The tasks of one tick are ready when periodic_generation starts its next
\* sleep, so they run before that sleep can end.
TickTasksRan == \A i \in DOMAIN tasks : tasks[i].origin # "tick"

\* The event loop may run a request handler or the periodic task.
MayRun == LoopIdle /\ StartupTasksRan

\* A variant of SelectIds: every element of ids is taken.
SelectIdsAll(ids, keep) == ids

\* The elements of ids that are in keep, in order.
RECURSIVE SelectIds(_, _)
SelectIds(ids, keep) ==
  IF ids = <<>> THEN <<>>
  ELSE (IF Head(ids) \in keep THEN <<Head(ids)>> ELSE <<>>) \o SelectIds(Tail(ids), keep)

\* seq without its i-th element
RemoveAt(seq, i) == SubSeq(seq, 1, i - 1) \o SubSeq(seq, i + 1, Len(seq))

(***************************************************************************)
(* Inputs                                                                  *)
(***************************************************************************)
\* A message an earlier run appended and saved.
StoredMessage(i) ==
  [id |-> <<"m0", "m1", "m2", "m3", "m4", "m5", "m6", "m7", "m8", "m9", "m10", "m11",
            "m12", "m13">>[i],
   timestamp |-> <<"[", "3", "1", "/", "1", "2", "/", "2", "0", "2", "5", ",", " ",
                   "2", "3", ":", "5", "9", ":", DigitChar(i \div 10), DigitChar(i % 10),
                   "]">>,
   sender |-> <<"E", "v", "e">>,
   content |-> <<"o", "l", "d">>,
   isUser |-> (i % 2 = 0),
   createdAt |-> <<"2", "0", "2", "5", "-", "1", "2", "-", "3", "1", "T",
                   "2", "3", ":", "5", "9", ":", DigitChar(i \div 10),
                   DigitChar(i % 10)>>]

\* The snapshot an earlier run left after n appends to the configured room.
Snapshot(n) == JsonDump([r \in CHAT_MODELS |-> [i \in 1..n |-> StoredMessage(i)]])

\* The most messages the snapshot found at startup holds.
MaxStored == 1

\* What the generator may return, as text.split("\n"), or that it raises.
GeneratorOutcomes ==
  { [kind |-> "raises"],
    [kind |-> "text", lines |->
      << <<"r", "a", "n", "d", "o", "m", " ", "n", "o", "i", "s", "e">>,
         <<"[", "0", "1", "/", "0", "1", "/", "2", "0", "2", "4", ",", " ",
           "1", "0", ":", "0", "0", ":", "0", "0", "]", " ",
           "A", "l", "i", "c", "e", ":", " ",
           "h", "e", "l", "l", "o", " ", "t", "h", "e", "r", "e">>,
         <<"m", "o", "r", "e", " ", "n", "o", "i", "s", "e">> >>],
    [kind |-> "text", lines |->
      << <<"[", "0", "1", "/", "0", "1", "/", "2", "0", "2", "4", ",", " ",
           "1", "0", ":", "0", "0", ":", "0", "0", "]", " ",
           "K", "i", "n", "g", "s", " ", "C", "r", "o", "s", "s", " ",
           "H", "a", "c", "k", " ", "L", "a", "b", ":", " ",
           "M", "e", "s", "s", "a", "g", "e", "s", " ", "a", "r", "e", " ",
           "n", "o", "w", " ", "e", "n", "c", "r", "y", "p", "t", "e", "d">> >>] }

\* The generator's texts, returned later than a bound a caller might set.
LateOutcomes ==
  {[kind |-> r.kind, lines |-> r.lines, late |-> TRUE] :
     r \in {x \in GeneratorOutcomes : x.kind = "text"}}

\* generate_gpt_chat does not return: model.generate blocks.
NoResponse == [kind |-> "no_response"]

\* What the call of line 152 may do, its timing included.
TimedOutcomes == GeneratorOutcomes \cup LateOutcomes \cup {NoResponse}

\* Lines the generator may write: text that is no message, messages with and
\* without brackets, two that differ in date and time only, announcements of
\* the group, a content of one character, a closing bracket without an
\* opening one, and a sender that is only a space.
GeneratedLines ==
  {
    \* noise
    <<"n", "o", "i", "s", "e">>,
    \* [1/1/24, 1:00] Al: hello
    <<"[", "1", "/", "1", "/", "2", "4", ",", " ", "1", ":", "0", "0", "]",
      " ", "A", "l", ":", " ", "h", "e", "l", "l", "o">>,
    \* [2/2/23, 2:22:22] Al: hello
    <<"[", "2", "/", "2", "/", "2", "3", ",", " ", "2", ":", "2", "2", ":",
      "2", "2", "]", " ", "A", "l", ":", " ", "h", "e", "l", "l", "o">>,
    \* 3/3/24 9:05 ~ Bob: ok
    <<"3", "/", "3", "/", "2", "4", " ", "9", ":", "0", "5", " ", "~", " ",
      "B", "o", "b", ":", " ", "o", "k">>,
    \* [1/1/24, 1:00] KINGS Cross Hack Lab 2: you were Added
    <<"[", "1", "/", "1", "/", "2", "4", ",", " ", "1", ":", "0", "0", "]",
      " ", "K", "I", "N", "G", "S", " ", "C", "r", "o", "s", "s", " ", "H",
      "a", "c", "k", " ", "L", "a", "b", " ", "2", ":", " ", "y", "o", "u",
      " ", "w", "e", "r", "e", " ", "A", "d", "d", "e", "d">>,
    \* [1/1/24, 1:00] kings cross hack lab: hello
    <<"[", "1", "/", "1", "/", "2", "4", ",", " ", "1", ":", "0", "0", "]",
      " ", "k", "i", "n", "g", "s", " ", "c", "r", "o", "s", "s", " ", "h",
      "a", "c", "k", " ", "l", "a", "b", ":", " ", "h", "e", "l", "l", "o">>,
    \* [1/1/24, 1:00] Cy: x
    <<"[", "1", "/", "1", "/", "2", "4", ",", " ", "1", ":", "0", "0", "]",
      " ", "C", "y", ":", " ", "x">>,
    \* 1/1/24, 1:00] Kings Cross Hack Lab: created
    <<"1", "/", "1", "/", "2", "4", ",", " ", "1", ":", "0", "0", "]", " ",
      "K", "i", "n", "g", "s", " ", "C", "r", "o", "s", "s", " ", "H", "a",
      "c", "k", " ", "L", "a", "b", ":", " ", "c", "r", "e", "a", "t", "e",
      "d">>,
    \* [1/1/24, 1:00] : hi
    <<"[", "1", "/", "1", "/", "2", "4", ",", " ", "1", ":", "0", "0", "]",
      " ", ":", " ", "h", "i">>
  }

\* The most lines of a generated text.
MaxLines == 2

\* The generated texts of one to MaxLines lines, as text.split("\n").
GeneratedTexts == UNION {[1..n -> GeneratedLines] : n \in 1..MaxLines}

\* What the generator may return over those texts, or that it raises.
TextOutcomes ==
  {[kind |-> "raises"]} \cup {[kind |-> "text", lines |-> t] : t \in GeneratedTexts}

\* The JSON bodies of POST /api/chat/send: a sender and a content that need
\* stripping, and no sender with a content that is only whitespace.
SendBodies ==
  { [sender |-> <<"Z", "e", "d", " ">>, content |-> <<" ", "h", "i", " ">>],
    [content |-> <<" ", " ">>] }

\* More JSON bodies: an empty content, no content, a content of one character
\* without a sender, and a sender that is only a space.
SendBodiesAll ==
  SendBodies \cup
  { [sender |-> <<"Z", "e", "d">>, content |-> <<>>],
    [sender |-> <<"Z", "e", "d">>],
    [content |-> <<"a">>],
    [sender |-> <<" ">>, content |-> <<"y", "o">>] }

\* The values of the "before" query parameter: absent, empty, an id no message
\* has, and the ids messages may have.
Befores(ids) == {None, "", "zz"} \cup ids

\* The most messages of a snapshot whose pages are read.
MaxPage == 4

(***************************************************************************)
(* generate_chat_message_background                                        *)
(***************************************************************************)
\* Lines 146-149: the context of the last ContextWindow messages.
RECURSIVE RenderContext(_)
RenderContext(msgs) ==
  IF msgs = <<>> THEN <<>>
  ELSE Head(msgs).timestamp \o <<" ">> \o Head(msgs).sender \o <<":", " ">>
         \o Head(msgs).content \o <<"\n">> \o RenderContext(Tail(msgs))

\* A variant of BuildContext: every message of the room is rendered.
BuildContextWhole(messages) == RenderContext(messages)

BuildContext(messages) == RenderContext(LastN(messages, ContextWindow))

\* Line 148: m['timestamp'], m['sender'] or m['content'] raises KeyError for a
\* message of the last ten that lacks the key.
ContextRaises(messages) ==
  \E i \in DOMAIN LastN(messages, ContextWindow) :
    ~({"timestamp", "sender", "content"} \subseteq DOMAIN LastN(messages, ContextWindow)[i])

\* A variant of SetFlag: the flag is not set.
SetFlagSkipped(generating, model_id) == generating

\* Line 142: chat_generating[model_id] = True
SetFlag(generating, model_id) == DictSet(generating, model_id, TRUE)

\* A variant of ClearFlag: the flag is cleared beside the append, inside
\* "if message:".
ClearFlagOnCommitOnly(generating, model_id, outcome) ==
  IF outcome = "committed" THEN DictSet(generating, model_id, FALSE) ELSE generating

\* A variant of ClearFlag: the flag is cleared at the end of the try block
\* instead of in a finally clause.
ClearFlagUnlessRaised(generating, model_id, outcome) ==
  IF outcome = "raised" THEN generating ELSE DictSet(generating, model_id, FALSE)

\* Line 168, reached on every outcome of the try: chat_generating[model_id] = False
ClearFlag(generating, model_id, outcome) == DictSet(generating, model_id, FALSE)

\* A variant of AppendGenerated: the message is put first.
AppendGeneratedInFront(list, message) == <<message>> \o list

\* A variant of AppendGenerated: the message is appended twice.
AppendGeneratedTwice(list, message) == Append(Append(list, message), message)

\* Line 160: chat_messages[model_id].append(message)
AppendGenerated(list, message) == Append(list, message)

\* Lines 136-149, run when the event loop takes the task at the head of its
\* queue: the two early returns, the flag set and the context built.
RunTask ==
  /\ phase = "serving"
  /\ tasks # <<>>
  /\ LoopIdle
  /\ LET task == Head(tasks)
         model_id == task.model_id
     IN /\ tasks' = Tail(tasks)
        /\ IF model_id \notin CHAT_MODELS
           THEN /\ event' = [op |-> "task_returned", model_id |-> model_id,
                             why |-> "unknown model", overlap |-> task.overlap]
                /\ UNCHANGED <<chat_generating, attempts>>
           ELSE IF DictGet(chat_generating, model_id, FALSE)
           THEN /\ event' = [op |-> "task_returned", model_id |-> model_id,
                             why |-> "generating", overlap |-> task.overlap]
                /\ UNCHANGED <<chat_generating, attempts>>
           ELSE IF ContextRaises(DictGet(chat_messages, model_id, <<>>))
           THEN /\ chat_generating' = SetFlag(chat_generating, model_id)
                /\ attempts' = Append(attempts,
                     [model_id |-> model_id, pc |-> "finally",
                      context |-> <<>>,
                      at_start |-> DictGet(chat_messages, model_id, <<>>),
                      overlap |-> task.overlap, sent |-> task.sent,
                      outcome |-> "raised", generated |-> [kind |-> "none"],
                      saved |-> "no"])
                /\ event' = [op |-> "attempt_started", model_id |-> model_id,
                             overlap |-> task.overlap]
           ELSE /\ chat_generating' = SetFlag(chat_generating, model_id)
                /\ attempts' = Append(attempts,
                     [model_id |-> model_id, pc |-> "generate",
                      context |-> BuildContext(DictGet(chat_messages, model_id, <<>>)),
                      at_start |-> DictGet(chat_messages, model_id, <<>>),
                      overlap |-> task.overlap, sent |-> task.sent,
                      outcome |-> "running", generated |-> <<>>, saved |-> "no"])
                /\ event' = [op |-> "attempt_started", model_id |-> model_id,
                             overlap |-> task.overlap]
  /\ UNCHANGED <<chat_models, peer, pager, phase, chat_messages, storage, uuid_counter, clock>>

\* A variant of Stamp: the message keeps the timestamp parsed from the text.
StampSkipped(message, now) == message

\* Line 159: message["timestamp"] = get_current_timestamp()
Stamp(message, now) == [message EXCEPT !.timestamp = GetCurrentTimestamp(now)]

\* Lines 152-166 of the i-th attempt: the generator returns or raises, the
\* text is parsed, a message found is stamped, appended and saved.  now is the
\* wall clock when a message is found.
Generate(i, result, write, now) ==
  /\ i \in DOMAIN attempts
  /\ attempts[i].pc = "generate"
  /\ OthersSuspended(i)
  /\ LET model_id == attempts[i].model_id
         message == IF result.kind = "text"
                    THEN parse_first_message(result.lines, Uuid4, now)
                    ELSE NoMessage
         stamped == Stamp(message, now)
         appended == [chat_messages EXCEPT ![model_id] = AppendGenerated(@, stamped)]
     IN IF result.kind = "no_response"
        THEN /\ attempts' = [attempts EXCEPT ![i].pc = "blocked", ![i].generated = result]
             /\ write = "ok" /\ now = clock
             /\ UNCHANGED <<chat_messages, storage, uuid_counter, clock>>
        ELSE IF result.kind = "raises"
        THEN /\ attempts' = [attempts EXCEPT ![i].pc = "finally", ![i].outcome = "raised",
                                             ![i].generated = result]
             /\ write = "ok" /\ now = clock
             /\ UNCHANGED <<chat_messages, storage, uuid_counter, clock>>
        ELSE IF message = NoMessage
        THEN /\ attempts' = [attempts EXCEPT ![i].pc = "finally", ![i].outcome = "rejected",
                                             ![i].generated = result]
             /\ write = "ok" /\ now = clock
             /\ UNCHANGED <<chat_messages, storage, uuid_counter, clock>>
        ELSE /\ uuid_counter < MaxUuid
             /\ uuid_counter' = uuid_counter + 1
             /\ clock' = now
             /\ chat_messages' = appended
             /\ storage' = save_chat_storage(appended, storage, write)
             /\ attempts' = [attempts EXCEPT ![i].pc = "finally",
                                             ![i].outcome = "committed",
                                             ![i].generated = result,
                                             ![i].saved = write]
  /\ event' = [op |-> "generated", model_id |-> attempts[i].model_id, result |-> result.kind]
  /\ UNCHANGED <<chat_models, peer, pager, phase, chat_generating, tasks>>

\* Line 168, the finally clause, and the coroutine's return.
Finally(i) ==
  /\ i \in DOMAIN attempts
  /\ attempts[i].pc = "finally"
  /\ chat_generating' = ClearFlag(chat_generating, attempts[i].model_id, attempts[i].outcome)
  /\ attempts' = RemoveAt(attempts, i)
  /\ event' = [op |-> "attempt_exit", model_id |-> attempts[i].model_id,
               outcome |-> attempts[i].outcome, at_start |-> attempts[i].at_start,
               overlap |-> attempts[i].overlap, generated |-> attempts[i].generated,
               saved |-> attempts[i].saved]
  /\ UNCHANGED <<chat_models, peer, pager, phase, chat_messages, storage, tasks, uuid_counter, clock>>

\* generate_chat_message_background(model_id) called with any model_id: the
\* code calls it with the keys of CHAT_MODELS only; this is the call itself,
\* as a task, for the model_id given.
TriggerGeneration(model_id) ==
  /\ phase = "serving"
  /\ MayRun
  /\ Len(tasks) < MaxTasks
  /\ tasks' = CreateTasks(tasks, <<model_id>>, "call", None)
  /\ event' = [op |-> "trigger", model_id |-> model_id]
  /\ UNCHANGED <<chat_models, peer, pager, phase, chat_messages, chat_generating, storage, attempts,
                 uuid_counter, clock>>

(***************************************************************************)
(* periodic_generation and lifespan                                        *)
(***************************************************************************)
\* Lines 183-191: load the storage, start the periodic task, trigger the rooms
\* that were loaded empty.
Startup ==
  /\ phase = "import"
  /\ phase' = "serving"
  /\ LET loaded == load_chat_storage(storage)
         empty == {r \in CHAT_MODELS : DictGet(loaded, r, <<>>) = <<>>}
     IN /\ chat_messages' = loaded
        /\ chat_generating' = [r \in (DOMAIN chat_generating) \cup CHAT_MODELS |-> FALSE]
        /\ tasks' = CreateTasks(tasks, SelectIds(ModelOrder, empty), "startup", None)
        /\ event' = [op |-> "startup", triggered |-> empty]
  /\ UNCHANGED <<chat_models, peer, pager, storage, attempts, uuid_counter, clock>>

\* Lines 174-176: the sleep ends and one task per configured room is queued.
PeriodicTick ==
  /\ phase = "serving"
  /\ MayRun
  /\ TickTasksRan
  /\ Len(tasks) + Len(ModelOrder) <= MaxTasks
  /\ tasks' = CreateTasks(tasks, ModelOrder, "tick", None)
  /\ event' = [op |-> "tick"]
  /\ UNCHANGED <<chat_models, peer, pager, phase, chat_messages, chat_generating, storage, attempts,
                 uuid_counter, clock>>

\* A variant of Shutdown: the storage is not saved.
ShutdownWithoutSave(write) ==
  /\ phase = "serving"
  /\ MayRun
  /\ phase' = "stopped"
  /\ event' = [op |-> "shutdown", saved |-> write]
  /\ UNCHANGED <<chat_models, peer, pager, chat_messages, chat_generating, storage, tasks, attempts,
                 uuid_counter, clock>>

\* Lines 196-197: the periodic task is cancelled and the storage saved; the
\* event loop then closes and runs no further task.
Shutdown(write) ==
  /\ phase = "serving"
  /\ MayRun
  /\ phase' = "stopped"
  /\ storage' = save_chat_storage(chat_messages, storage, write)
  /\ event' = [op |-> "shutdown", saved |-> write]
  /\ UNCHANGED <<chat_models, peer, pager, chat_messages, chat_generating, tasks, attempts, uuid_counter, clock>>

\* The process is killed while the save_chat_storage() of line 197 is between
\* the open(..., "w") of line 74, which truncates the file, and the end of
\* json.dump at line 75.  chat_messages keeps what the process held.
KilledInSave ==
  /\ phase = "serving"
  /\ MayRun
  /\ phase' = "killed"
  /\ storage' = PartialFile
  /\ event' = [op |-> "killed", file_before |-> storage]
  /\ UNCHANGED <<chat_models, peer, pager, chat_messages, chat_generating, tasks, attempts, uuid_counter, clock>>

\* The program is started again: lines 44-45 of a new process, beside the
\* file the last one left.  uuid4 and the wall clock go on.
Restart ==
  /\ phase \in {"stopped", "killed"}
  /\ phase' = "import"
  /\ chat_messages' = <<>>
  /\ chat_generating' = <<>>
  /\ tasks' = <<>>
  /\ attempts' = <<>>
  /\ event' = [op |-> "import"]
  /\ UNCHANGED <<chat_models, peer, pager, storage, uuid_counter, clock>>

\* What datetime.now() may read: the wall clock does not run backwards.
ClockReadings == clock..MaxClock

(***************************************************************************)
(* The chat room endpoints                                                 *)
(***************************************************************************)
\* Lines 670-674: the index (0-based) of the first message whose id is before,
\* -1 standing for None.
RECURSIVE FindIndex(_, _, _)
FindIndex(all_messages, before, i) ==
  IF i >= Len(all_messages) THEN -1
  ELSE IF all_messages[i + 1].id = before THEN i
  ELSE FindIndex(all_messages, before, i + 1)

\* "if before:" of an Optional[str]
Truthy(before) == before # None /\ before # ""

\* A variant of PageBefore: has_more is computed as in the other branches.
PageBeforeTotalMore(all_messages, limit, before_index) ==
  [messages |-> Slice(all_messages, Max(0, before_index - limit), before_index),
   has_more |-> Len(all_messages) > limit]

\* A variant of PageBefore: the slice ends with the message found.
PageBeforeInclusive(all_messages, limit, before_index) ==
  [messages |-> Slice(all_messages, Max(0, before_index + 1 - limit), before_index + 1),
   has_more |-> Max(0, before_index + 1 - limit) > 0]

\* Lines 678-680: the messages before the one found at before_index.
PageBefore(all_messages, limit, before_index) ==
  [messages |-> Slice(all_messages, Max(0, before_index - limit), before_index),
   has_more |-> Max(0, before_index - limit) > 0]

\* A variant of PageNotFound: an unknown "before" gives an empty page.
PageNotFoundEmpty(all_messages, limit) == [messages |-> <<>>, has_more |-> FALSE]

\* Lines 683-686: "before" names no message.
PageNotFound(all_messages, limit) ==
  [messages |-> IF Len(all_messages) > limit
                THEN LastN(all_messages, limit) ELSE all_messages,
   has_more |-> Len(all_messages) > limit]

\* A variant of PageLatest: has_more compares with >=.
PageLatestOffByOne(all_messages, limit) ==
  [messages |-> IF Len(all_messages) > limit
                THEN LastN(all_messages, limit) ELSE all_messages,
   has_more |-> Len(all_messages) >= limit]

\* Lines 689-690: no "before".
PageLatest(all_messages, limit) ==
  [messages |-> IF Len(all_messages) > limit
                THEN LastN(all_messages, limit) ELSE all_messages,
   has_more |-> Len(all_messages) > limit]

\* Lines 668-690: the page and has_more.
SelectPage(all_messages, limit, before) ==
  IF Truthy(before)
  THEN IF FindIndex(all_messages, before, 0) # -1
       THEN PageBefore(all_messages, limit, FindIndex(all_messages, before, 0))
       ELSE PageNotFound(all_messages, limit)
  ELSE PageLatest(all_messages, limit)

\* A variant of OldestMessageId: the id of the newest message of the page.
OldestMessageIdOfNewest(messages) ==
  IF messages # <<>> THEN messages[Len(messages)].id ELSE None

\* Line 693: messages[0]["id"] if messages else None
OldestMessageId(messages) == IF messages # <<>> THEN messages[1].id ELSE None

\* get_chat_messages(model_id, limit, before): the response.
get_chat_messages(model_id, limit, before) ==
  LET all_messages == DictGet(chat_messages, model_id, <<>>)
      is_generating == DictGet(chat_generating, model_id, FALSE)
      page == SelectPage(all_messages, limit, before)
  IN IF model_id \notin CHAT_MODELS
     THEN [error |-> "Unknown model"]
     ELSE [model |-> model_id,
           messages |-> page.messages,
           isGenerating |-> is_generating,
           hasMore |-> page.has_more,
           oldestMessageId |-> OldestMessageId(page.messages),
           totalCount |-> Len(all_messages)]

\* A variant of GetChatMessages: the page is cut out of the room's list in
\* place, del all_messages[:-limit].
GetChatMessagesTrimming(model_id, limit, before) ==
  /\ phase = "serving"
  /\ MayRun
  /\ event' = [op |-> "get_chat_messages", model_id |-> model_id, limit |-> limit,
               before |-> before,
               response |-> get_chat_messages(model_id, limit, before)]
  /\ chat_messages' = IF model_id \in CHAT_MODELS
                      THEN [chat_messages EXCEPT ![model_id] = LastN(@, limit)]
                      ELSE chat_messages
  /\ UNCHANGED <<chat_models, peer, pager, phase, chat_generating, storage, tasks, attempts,
                 uuid_counter, clock>>

\* get_chat_messages as a step: the handler has no await and assigns to no
\* module variable.
GetChatMessages(model_id, limit, before) ==
  /\ phase = "serving"
  /\ MayRun
  /\ event' = [op |-> "get_chat_messages", model_id |-> model_id, limit |-> limit,
               before |-> before,
               response |-> get_chat_messages(model_id, limit, before)]
  /\ UNCHANGED <<chat_models, peer, pager, phase, chat_messages, chat_generating, storage, tasks, attempts,
                 uuid_counter, clock>>

\* get_chat_status(model_id): the response.
\* A variant of get_chat_status: the room id is not looked up in CHAT_MODELS.
get_chat_status_unchecked(model_id) ==
  [model_id |-> model_id,
   isGenerating |-> DictGet(chat_generating, model_id, FALSE),
   messageCount |-> Len(DictGet(chat_messages, model_id, <<>>))]

get_chat_status(model_id) ==
  IF model_id \notin CHAT_MODELS
  THEN [error |-> "Unknown model"]
  ELSE [model_id |-> model_id,
        isGenerating |-> DictGet(chat_generating, model_id, FALSE),
        messageCount |-> Len(DictGet(chat_messages, model_id, <<>>))]

GetChatStatus(model_id) ==
  /\ phase = "serving"
  /\ MayRun
  /\ event' = [op |-> "get_chat_status", model_id |-> model_id,
               response |-> get_chat_status(model_id)]
  /\ UNCHANGED <<chat_models, peer, pager, phase, chat_messages, chat_generating, storage, tasks, attempts,
                 uuid_counter, clock>>

\* A client of GET /api/chat/messages that loads a room's history: it has not
\* started, or it holds the room's messages as they were at its first request
\* (first), the pages it was given put oldest-first (pages), and the
\* oldestMessageId it will send as "before".
NotPaging == [stage |-> "idle"]

\* The client's state after the answer to a request with this limit.
Paged(model_id, limit, first, pages, response) ==
  [stage |-> IF response.hasMore THEN "paging" ELSE "done",
   model_id |-> model_id, limit |-> limit, first |-> first,
   pages |-> response.messages \o pages,
   before |-> response.oldestMessageId]

\* The client's first request, without "before".
PagerStart(model_id, limit) ==
  /\ phase = "serving"
  /\ MayRun
  /\ pager.stage = "idle"
  /\ pager' = Paged(model_id, limit, DictGet(chat_messages, model_id, <<>>), <<>>,
                    get_chat_messages(model_id, limit, None))
  /\ event' = [op |-> "get_chat_messages", model_id |-> model_id, limit |-> limit,
               before |-> None,
               response |-> get_chat_messages(model_id, limit, None)]
  /\ UNCHANGED <<chat_models, peer, phase, chat_messages, chat_generating, storage,
                 tasks, attempts, uuid_counter, clock>>

\* The client's next request, "before" being the oldestMessageId just given.
PagerNext ==
  /\ phase = "serving"
  /\ MayRun
  /\ pager.stage = "paging"
  /\ pager' = Paged(pager.model_id, pager.limit, pager.first, pager.pages,
                    get_chat_messages(pager.model_id, pager.limit, pager.before))
  /\ event' = [op |-> "get_chat_messages", model_id |-> pager.model_id,
               limit |-> pager.limit, before |-> pager.before,
               response |-> get_chat_messages(pager.model_id, pager.limit, pager.before)]
  /\ UNCHANGED <<chat_models, peer, phase, chat_messages, chat_generating, storage,
                 tasks, attempts, uuid_counter, clock>>

Anonymous == <<"A", "n", "o", "n", "y", "m", "o", "u", "s">>

\* A variant of UserMessage: isUser is False, as in the parser's dict.
UserMessageUnmarked(data, id, now) ==
  [id |-> id,
   timestamp |-> GetCurrentTimestamp(now),
   sender |-> Strip(DictGet(data, "sender", Anonymous)),
   content |-> Strip(DictGet(data, "content", <<>>)),
   isUser |-> FALSE,
   createdAt |-> IsoFormat(now)]

\* A variant of ContentIsEmpty: the content is tested without strip().
ContentIsEmptyUnstripped(data) == DictGet(data, "content", <<>>) = <<>>

\* Lines 713-715: not content.strip(), content being data.get("content", "")
ContentIsEmpty(data) == Strip(DictGet(data, "content", <<>>)) = <<>>

\* Lines 719-726: the user's message.
UserMessage(data, id, now) ==
  [id |-> id,
   timestamp |-> GetCurrentTimestamp(now),
   sender |-> Strip(DictGet(data, "sender", Anonymous)),
   content |-> Strip(DictGet(data, "content", <<>>)),
   isUser |-> TRUE,
   createdAt |-> IsoFormat(now)]

\* A variant of AppendSent: the message is not appended.
AppendSentDropped(list, message) == list

\* A variant of AppendSent: the message is put first, list.insert(0, message).
AppendSentInFront(list, message) == <<message>> \o list

\* Line 728: chat_messages[model_id].append(message)
AppendSent(list, message) == Append(list, message)

\* send_chat_message(model_id, request), data the request's JSON body and now
\* the wall clock when the message is created.
SendChatMessage(model_id, data, write, now) ==
  /\ phase = "serving"
  /\ MayRun
  /\ IF model_id \notin CHAT_MODELS
     THEN /\ event' = [op |-> "send_chat_message", model_id |-> model_id, data |-> data,
                       response |-> [error |-> "Unknown model"]]
          /\ write = "ok" /\ now = clock
          /\ UNCHANGED <<chat_messages, storage, tasks, uuid_counter, clock>>
     ELSE IF ContentIsEmpty(data)
     THEN /\ event' = [op |-> "send_chat_message", model_id |-> model_id, data |-> data,
                       response |-> [error |-> "Message content cannot be empty"]]
          /\ write = "ok" /\ now = clock
          /\ UNCHANGED <<chat_messages, storage, tasks, uuid_counter, clock>>
     ELSE LET message == UserMessage(data, Uuid4, now)
              appended == [chat_messages EXCEPT ![model_id] = AppendSent(@, message)]
          IN /\ uuid_counter < MaxUuid
             /\ Len(tasks) < MaxTasks
             /\ uuid_counter' = uuid_counter + 1
             /\ clock' = now
             /\ chat_messages' = appended
             /\ storage' = save_chat_storage(appended, storage, write)
             /\ tasks' = CreateTasks(tasks, <<model_id>>, "send", message.id)
             /\ event' = [op |-> "send_chat_message", model_id |-> model_id, data |-> data,
                          response |-> [success |-> TRUE, message |-> message],
                          saved |-> write]
  /\ UNCHANGED <<chat_models, peer, pager, phase, chat_generating, attempts>>

(***************************************************************************)
(* The specifications                                                      *)
(***************************************************************************)
\* The module is imported: both dicts are empty, and the file is absent or
\* holds the snapshot of an earlier run, of at most n messages.
InitWith(n) ==
  /\ chat_models = ConfiguredRoom
  /\ peer = NoPeer
  /\ phase = "import"
  /\ chat_messages = <<>>
  /\ chat_generating = <<>>
  /\ storage \in {NoFile} \cup {Snapshot(k) : k \in 1..n}
  /\ tasks = <<>>
  /\ attempts = <<>>
  /\ uuid_counter = 0
  /\ clock = 0
  /\ event = [op |-> "import"]
  /\ pager = NotPaging

Init == InitWith(MaxStored)

Next ==
  \/ Startup
  \/ PeriodicTick
  \/ RunTask
  \/ \E i \in DOMAIN attempts, result \in GeneratorOutcomes, write \in WriteOutcomes,
        now \in ClockReadings :
       Generate(i, result, write, now)
  \/ \E i \in DOMAIN attempts : Finally(i)
  \/ \E model_id \in RequestModelIds, limit \in {1, 2}, before \in {None, UuidPool[1]} :
       GetChatMessages(model_id, limit, before)
  \/ \E model_id \in RequestModelIds : GetChatStatus(model_id)
  \/ \E model_id \in RequestModelIds, data \in SendBodies, write \in WriteOutcomes,
        now \in ClockReadings :
       SendChatMessage(model_id, data, write, now)
  \/ \E write \in WriteOutcomes : Shutdown(write)

Spec == Init /\ [][Next]_vars

(***************************************************************************)
(* Pagination over the snapshots of earlier runs: startup, the attempt it   *)
(* triggers for an empty room, then any reads.                             *)
(***************************************************************************)
InitPage == InitWith(MaxPage)

NextPage ==
  \/ Startup
  \/ RunTask
  \/ \E i \in DOMAIN attempts, result \in GeneratorOutcomes, now \in ClockReadings :
       Generate(i, result, "ok", now)
  \/ \E i \in DOMAIN attempts : Finally(i)
  \/ \E model_id \in RequestModelIds, limit \in 1..(MaxPage + 1),
        before \in Befores({StoredMessage(i).id : i \in 1..MaxPage} \cup {UuidPool[1]}) :
       GetChatMessages(model_id, limit, before)

SpecPage == InitPage /\ [][NextPage]_vars

(***************************************************************************)
(* The attempt that startup triggers for an empty room, over the generated  *)
(* texts.                                                                  *)
(***************************************************************************)
InitParse == InitWith(0)

NextParse ==
  \/ Startup
  \/ RunTask
  \/ \E i \in DOMAIN attempts, result \in TextOutcomes, now \in ClockReadings :
       Generate(i, result, "ok", now)
  \/ \E i \in DOMAIN attempts : Finally(i)

SpecParse == InitParse /\ [][NextParse]_vars

(***************************************************************************)
(* The endpoints and the generation coroutine, called with any room id and  *)
(* any body.                                                               *)
(***************************************************************************)
NextRequests ==
  \/ Startup
  \/ \E model_id \in RequestModelIds : TriggerGeneration(model_id)
  \/ RunTask
  \/ \E i \in DOMAIN attempts, result \in GeneratorOutcomes :
       Generate(i, result, "ok", clock)
  \/ \E i \in DOMAIN attempts : Finally(i)
  \/ \E model_id \in RequestModelIds, before \in {None, UuidPool[1]} :
       GetChatMessages(model_id, 1, before)
  \/ \E model_id \in RequestModelIds : GetChatStatus(model_id)
  \/ \E model_id \in RequestModelIds, data \in SendBodiesAll :
       SendChatMessage(model_id, data, "ok", clock)

SpecRequests == Init /\ [][NextRequests]_vars

(***************************************************************************)
(* The storage file over the runs of the program: startup beside any file, *)
(* appends whose writes may fail, shutdown or a kill, and the next run.     *)
(***************************************************************************)
InitStore ==
  /\ chat_models = ConfiguredRoom
  /\ peer = NoPeer
  /\ phase = "import"
  /\ chat_messages = <<>>
  /\ chat_generating = <<>>
  /\ storage \in {NoFile, PartialFile, ArrayFile, FieldlessFile, Snapshot(MaxStored)}
  /\ tasks = <<>>
  /\ attempts = <<>>
  /\ uuid_counter = 0
  /\ clock = 0
  /\ event = [op |-> "import"]
  /\ pager = NotPaging

NextStore ==
  \/ Startup
  \/ RunTask
  \/ \E i \in DOMAIN attempts, result \in GeneratorOutcomes, write \in WriteOutcomes :
       Generate(i, result, write, clock)
  \/ \E i \in DOMAIN attempts : Finally(i)
  \/ \E model_id \in CHAT_MODELS, data \in SendBodies, write \in WriteOutcomes :
       SendChatMessage(model_id, data, write, clock)
  \/ \E write \in WriteOutcomes : Shutdown(write)
  \/ KilledInSave
  \/ Restart

SpecStore == InitStore /\ [][NextStore]_vars

(***************************************************************************)
(* The scheduler left to run: startup, the ticks and the attempts, under    *)
(* the event loop's scheduling.  The loop runs every task that is ready     *)
(* (create_task queues it for the next iteration), a coroutine that has     *)
(* started runs to its return (generate_chat_message_background has no      *)
(* await), and asyncio.sleep(5 * 60) ends: each is weakly fair.  Nothing is  *)
(* assumed of what the generator returns.                                  *)
(***************************************************************************)
NextLive ==
  \/ Startup
  \/ PeriodicTick
  \/ RunTask
  \/ \E i \in DOMAIN attempts, result \in GeneratorOutcomes, write \in WriteOutcomes :
       Generate(i, result, write, clock)
  \/ \E i \in DOMAIN attempts : Finally(i)

Fairness ==
  /\ WF_vars(Startup)
  /\ WF_vars(PeriodicTick)
  /\ WF_vars(RunTask)
  /\ WF_vars(\E i \in DOMAIN attempts, result \in GeneratorOutcomes,
                 write \in WriteOutcomes : Generate(i, result, write, clock))
  /\ WF_vars(\E i \in DOMAIN attempts : Finally(i))

SpecLive == Init /\ [][NextLive]_vars /\ Fairness

(***************************************************************************)
(* The scheduler and the attempts with a generator that may answer late or  *)
(* not at all, under the event loop's scheduling (see Fairness).            *)
(***************************************************************************)
NextTimed ==
  \/ Startup
  \/ PeriodicTick
  \/ RunTask
  \/ \E i \in DOMAIN attempts, result \in TimedOutcomes, write \in WriteOutcomes :
       Generate(i, result, write, clock)
  \/ \E i \in DOMAIN attempts : Finally(i)

FairnessTimed ==
  /\ WF_vars(Startup)
  /\ WF_vars(PeriodicTick)
  /\ WF_vars(RunTask)
  /\ WF_vars(\E i \in DOMAIN attempts, result \in TimedOutcomes,
                 write \in WriteOutcomes : Generate(i, result, write, clock))
  /\ WF_vars(\E i \in DOMAIN attempts : Finally(i))

SpecTimed == Init /\ [][NextTimed]_vars /\ FairnessTimed

(***************************************************************************)
(* The same code with two rooms in CHAT_MODELS: startup, the ticks, the     *)
(* attempts and sends to either room.                                      *)
(***************************************************************************)
TwoRooms == <<"kxhl-1", "kxhl-2">>

InitRooms ==
  /\ chat_models = TwoRooms
  /\ peer = NoPeer
  /\ phase = "import"
  /\ chat_messages = <<>>
  /\ chat_generating = <<>>
  /\ storage \in {NoFile, Snapshot(MaxStored)}
  /\ tasks = <<>>
  /\ attempts = <<>>
  /\ uuid_counter = 0
  /\ clock = 0
  /\ event = [op |-> "import"]
  /\ pager = NotPaging

NextRooms ==
  \/ Startup
  \/ PeriodicTick
  \/ RunTask
  \/ \E i \in DOMAIN attempts, result \in GeneratorOutcomes :
       Generate(i, result, "ok", clock)
  \/ \E i \in DOMAIN attempts : Finally(i)
  \/ \E model_id \in CHAT_MODELS, data \in SendBodies :
       SendChatMessage(model_id, data, "ok", clock)

SpecRooms == InitRooms /\ [][NextRooms]_vars

(***************************************************************************)
(* Attempts in rooms of up to MaxContext stored messages: startup, ticks,   *)
(* sends and the attempts they trigger.                                    *)
(***************************************************************************)
\* The most messages the snapshot found at startup holds here.
MaxContext == 12

InitContext == InitWith(MaxContext)

NextContext ==
  \/ Startup
  \/ PeriodicTick
  \/ RunTask
  \/ \E i \in DOMAIN attempts, result \in GeneratorOutcomes :
       Generate(i, result, "ok", clock)
  \/ \E i \in DOMAIN attempts : Finally(i)
  \/ \E model_id \in CHAT_MODELS, data \in SendBodies :
       SendChatMessage(model_id, data, "ok", clock)

SpecContext == InitContext /\ [][NextContext]_vars

(***************************************************************************)
(* A client pages back through a room while messages are sent to it and    *)
(* generated for it.                                                       *)
(***************************************************************************)
PagerLimits == {1, 2}

NextPaging ==
  \/ Startup
  \/ RunTask
  \/ \E i \in DOMAIN attempts, result \in GeneratorOutcomes :
       Generate(i, result, "ok", clock)
  \/ \E i \in DOMAIN attempts : Finally(i)
  \/ \E model_id \in CHAT_MODELS, data \in SendBodies :
       SendChatMessage(model_id, data, "ok", clock)
  \/ \E model_id \in CHAT_MODELS, limit \in PagerLimits : PagerStart(model_id, limit)
  \/ PagerNext

SpecPaging == InitPage /\ [][NextPaging]_vars

(***************************************************************************)
(* Properties                                                              *)
(***************************************************************************)
\* The attempts of room r that have set the flag and not yet returned.
ActiveAttempts(r) == {i \in DOMAIN attempts : attempts[i].model_id = r}

Generating(r) == DictGet(chat_generating, r, FALSE)

\* C1: in every state each room has at most one attempt in flight, and its
\* generating flag is true exactly when it has one.
C1_OneAttemptInFlight ==
  \A r \in RequestModelIds :
    /\ Cardinality(ActiveAttempts(r)) <= 1
    /\ Generating(r) <=> Cardinality(ActiveAttempts(r)) = 1

\* An attempt is in flight, waiting for the generator, and the flag is set.
C1_Witness ==
  \E r \in CHAT_MODELS :
    /\ Generating(r)
    /\ \E i \in ActiveAttempts(r) : attempts[i].pc = "generate"

\* C2: a trigger issued while an earlier trigger of its room had not finished
\* is dropped: no attempt starts for it, so the generator is not called for it.
C2_SecondTriggerDropped == \A i \in DOMAIN attempts : ~attempts[i].overlap

\* C3: when an attempt returns, whatever its outcome (a message committed, every
\* line rejected, the generator raised), the room's flag is false.
C3_FlagClearedOnExit ==
  event.op = "attempt_exit" =>
    /\ event.outcome \in {"committed", "rejected", "raised"}
    /\ ~Generating(event.model_id)

\* An attempt whose text the parser rejected has returned.
C3_Witness ==
  /\ event.op = "attempt_exit"
  /\ event.outcome = "rejected"
  /\ ~Generating(event.model_id)

\* C4: after an attempt whose generator call raised, the flag is false and the
\* room holds the messages it held when the attempt started, followed by
\* nothing but user messages; and a read of a configured room, or a send of a
\* non-blank content to it, never answers with an error.
C4_GeneratorFailure ==
  /\ (event.op = "attempt_exit" /\ event.outcome = "raised") =>
       LET now == chat_messages[event.model_id]
       IN /\ ~Generating(event.model_id)
          /\ IsPrefix(event.at_start, now)
          /\ \A k \in (Len(event.at_start) + 1)..Len(now) : now[k].isUser
  /\ (event.op \in {"get_chat_messages", "get_chat_status"}
        /\ event.model_id \in CHAT_MODELS) =>
       "error" \notin DOMAIN event.response
  /\ (event.op = "send_chat_message" /\ event.model_id \in CHAT_MODELS
        /\ Strip(DictGet(event.data, "content", <<>>)) # <<>>) =>
       "error" \notin DOMAIN event.response

\* An attempt whose generator call raised has returned, in a room with messages.
C4_Witness ==
  /\ event.op = "attempt_exit"
  /\ event.outcome = "raised"
  /\ chat_messages[event.model_id] # <<>>

\* C5: an attempt appends one message when the parser finds one in the text
\* the generator returned, and none otherwise; the append is followed by a call
\* of save_chat_storage in the same attempt, which, when its write completes,
\* leaves the file equal to the messages in memory.
C5_AppendsPerAttempt ==
  event.op = "attempt_exit" =>
    LET now == chat_messages[event.model_id]
        draft == /\ event.generated.kind = "text"
                 /\ parse_first_message(event.generated.lines, "id", 0) # NoMessage
    IN /\ IsPrefix(event.at_start, now)
       /\ Len(now) = Len(event.at_start) + (IF draft THEN 1 ELSE 0)
       /\ draft => /\ ~now[Len(now)].isUser
                   /\ event.saved \in WriteOutcomes
                   /\ event.saved = "ok" => storage = JsonDump(chat_messages)
       /\ ~draft => event.saved = "no"

\* An attempt that committed a message, and wrote the file, has returned.
C5_Witness ==
  /\ event.op = "attempt_exit"
  /\ event.outcome = "committed"
  /\ event.saved = "ok"
  /\ Len(chat_messages[event.model_id]) = Len(event.at_start) + 1

\* C6: once startup has loaded the storage, every step leaves each room's
\* messages a prefix of what the room holds afterwards.
C6_AppendOnly ==
  [][phase # "import" =>
       \A r \in DOMAIN chat_messages :
         /\ r \in DOMAIN chat_messages'
         /\ IsPrefix(chat_messages[r], chat_messages'[r])]_vars

\* A room holds a loaded message, a sent one and a generated one.
C6_Witness ==
  \E r \in DOMAIN chat_messages :
    /\ Len(chat_messages[r]) >= 3
    /\ \E i, j \in DOMAIN chat_messages[r] :
         i > 1 /\ j > 1 /\ chat_messages[r][i].isUser /\ ~chat_messages[r][j].isUser

\* C7: no two positions of a room's messages hold the same id.
C7_UniqueIds ==
  \A r \in DOMAIN chat_messages :
    \A i, j \in DOMAIN chat_messages[r] :
      i # j => chat_messages[r][i].id # chat_messages[r][j].id

\* A room holds a message sent and a message generated in this run.
C7_Witness ==
  \E r \in DOMAIN chat_messages :
    \E i, j \in DOMAIN chat_messages[r] :
      /\ chat_messages[r][i].id = UuidPool[1]
      /\ chat_messages[r][j].id = UuidPool[2]
      /\ chat_messages[r][i].isUser # chat_messages[r][j].isUser

\* The answer just given to a read of a configured room.
IsPageRead == event.op = "get_chat_messages" /\ event.model_id \in CHAT_MODELS

\* The 0-based index of the message of list whose id is id.
IndexOfId(list, id) == (CHOOSE i \in DOMAIN list : list[i].id = id) - 1

\* C8: a read without a cursor returns the last min(limit, total) messages,
\* oldest first, and hasMore = (total > limit).
C8_PageWithoutCursor ==
  (IsPageRead /\ event.before = None) =>
    LET all == chat_messages[event.model_id]
        n == Min(event.limit, Len(all))
    IN /\ Len(event.response.messages) = n
       /\ \A k \in 1..n : event.response.messages[k] = all[Len(all) - n + k]
       /\ event.response.hasMore = (Len(all) > event.limit)

\* A read without a cursor of a room that holds more than limit >= 2 messages.
C8_Witness ==
  /\ IsPageRead
  /\ event.before = None
  /\ event.limit >= 2
  /\ Len(chat_messages[event.model_id]) > event.limit
  /\ event.response.hasMore

\* C9: a read whose cursor is the id of the message at index i returns the
\* slice [max(0, i - limit), i), oldest first, without the cursor message, and
\* hasMore = (i - limit > 0); a cursor at index 0 gives an empty page.
C9_PageBeforeCursor ==
  (IsPageRead /\ \E k \in DOMAIN chat_messages[event.model_id] :
                   chat_messages[event.model_id][k].id = event.before) =>
    LET all == chat_messages[event.model_id]
        i == IndexOfId(all, event.before)
        from == Max(0, i - event.limit)
    IN /\ Len(event.response.messages) = i - from
       /\ \A k \in 1..(i - from) : event.response.messages[k] = all[from + k]
       /\ event.response.hasMore = (i - event.limit > 0)
       /\ i = 0 => (event.response.messages = <<>> /\ ~event.response.hasMore)

\* A read before a cursor that leaves older messages unread.
C9_Witness ==
  /\ IsPageRead
  /\ \E k \in DOMAIN chat_messages[event.model_id] :
       k >= 4 /\ chat_messages[event.model_id][k].id = event.before
  /\ event.limit = 2
  /\ Len(event.response.messages) = 2
  /\ event.response.hasMore

\* C10: a read whose cursor is the id of no message of the room returns the
\* messages and hasMore of the read with the same limit and no cursor: the
\* last min(limit, total) messages and total > limit.
C10_UnknownCursor ==
  (IsPageRead /\ Truthy(event.before)
     /\ \A k \in DOMAIN chat_messages[event.model_id] :
          chat_messages[event.model_id][k].id # event.before) =>
    LET all == chat_messages[event.model_id]
        without == get_chat_messages(event.model_id, event.limit, None)
    IN /\ event.response.messages = without.messages
       /\ event.response.hasMore = without.hasMore
       /\ event.response.messages = LastN(all, Min(event.limit, Len(all)))
       /\ event.response.hasMore = (Len(all) > event.limit)

\* A read with an unknown cursor of a room that holds more than limit messages.
C10_Witness ==
  /\ IsPageRead
  /\ event.before = "zz"
  /\ Len(chat_messages[event.model_id]) > event.limit
  /\ event.response.messages # <<>>
  /\ event.response.hasMore

\* C11: in the answer to every read, oldestMessageId is the id of the first
\* message of the page, and None exactly when the page is empty; totalCount is
\* the length of the room's sequence, whatever the limit and the cursor.
C11_OldestIdAndTotalCount ==
  IsPageRead =>
    /\ event.response.messages # <<>> =>
         event.response.oldestMessageId = event.response.messages[1].id
    /\ event.response.oldestMessageId = None <=> event.response.messages = <<>>
    /\ event.response.totalCount = Len(chat_messages[event.model_id])

\* A read with a cursor returned a page of two or more messages, fewer than
\* the room holds.
C11_Witness ==
  /\ IsPageRead
  /\ Truthy(event.before)
  /\ Len(event.response.messages) >= 2
  /\ event.response.oldestMessageId = event.response.messages[1].id
  /\ event.response.totalCount > Len(event.response.messages)

\* C12: a client that reads the latest page and then, with the same limit,
\* the page before each oldestMessageId it is given, until hasMore is false,
\* holds at every moment a contiguous run of the messages the room held at its
\* first request, ending with the newest of them, and at the end holds each of
\* them exactly once, whatever was sent or generated between its requests.
C12_PagingStable ==
  pager.stage # "idle" =>
    /\ Len(pager.pages) <= Len(pager.first)
    /\ pager.pages = SubSeq(pager.first, Len(pager.first) - Len(pager.pages) + 1,
                            Len(pager.first))
    /\ IsPrefix(pager.first, chat_messages[pager.model_id])
    /\ pager.stage = "done" => pager.pages = pager.first

\* The client finished after three or more requests, and the room grew by a
\* sent and a generated message since its first request.
C12_Witness ==
  /\ pager.stage = "done"
  /\ Len(pager.first) > 2 * pager.limit
  /\ pager.pages = pager.first
  /\ Len(chat_messages[pager.model_id]) >= Len(pager.first) + 2

\* C13: a step that answers a read of the messages or of the status, of a
\* configured or an unknown room, with or without a cursor, leaves the
\* messages of every room, every generating flag and the file as they were.
C13_ReadsChangeNothing ==
  [][event'.op \in {"get_chat_messages", "get_chat_status"} =>
       /\ chat_messages' = chat_messages
       /\ chat_generating' = chat_generating
       /\ storage' = storage]_vars

\* A read with a cursor that was found has been answered while a generation
\* task is waiting to run, in a room that holds more messages than the limit.
C13_Witness ==
  /\ IsPageRead
  /\ Truthy(event.before)
  /\ \E k \in DOMAIN chat_messages[event.model_id] :
       chat_messages[event.model_id][k].id = event.before
  /\ Len(chat_messages[event.model_id]) > event.limit
  /\ tasks # <<>>

\* C14: the answer to a read is taken from one sequence, the one the room
\* holds when the handler runs (before or after any append, never between):
\* totalCount is its length, the page is a run of consecutive messages of it,
\* and hasMore says whether that run starts after its first message.
C14_ReadOfOneSequence ==
  IsPageRead =>
    LET all == chat_messages[event.model_id]
        page == event.response.messages
    IN /\ event.response.totalCount = Len(all)
       /\ \E a \in 0..(Len(all) - Len(page)) :
            /\ page = SubSeq(all, a + 1, a + Len(page))
            /\ event.response.hasMore = (a > 0)

\* A read with a cursor was answered, with a page that is not empty, after the
\* room grew beyond what it held at the client's first request.
C14_Witness ==
  /\ IsPageRead
  /\ pager.stage # "idle"
  /\ Truthy(event.before)
  /\ event.response.messages # <<>>
  /\ Len(chat_messages[event.model_id]) > Len(pager.first)

\* The attempt that just returned had a text from the generator.
IsParsedExit == event.op = "attempt_exit" /\ event.generated.kind = "text"

\* The message that one line alone gives, or NoMessage.
LineDraft(line) == ParseLine(line, "id", 0)

\* The positions of the lines of a text that give a message.
ValidLines(lines) == {k \in DOMAIN lines : LineDraft(lines[k]) # NoMessage}

\* The message the room ends with.
LastMessage(r) == chat_messages[r][Len(chat_messages[r])]

FirstMatch(line) ==
  IF ReMatch(TRUE, Strip(line)) # NoMessage
  THEN ReMatch(TRUE, Strip(line)) ELSE ReMatch(FALSE, Strip(line))

\* A line whose first match has a sender and a content of a system message.
IsSystemLine(line) ==
  /\ FirstMatch(line) # NoMessage
  /\ IsSystemMessage(LStrip(Strip(FirstMatch(line).g3), {"~", LRM, " "}),
                     Strip(FirstMatch(line).g4))

\* C16: no attempt commits a message whose sender starts with the
\* administrative name and whose content holds a system keyword, in any case
\* of letters; a line that matches with such a sender and content gives no
\* message, the parser going on to the next line; and a line of that sender
\* without a keyword gives a message.
C16_SystemLinesRejected ==
  IsParsedExit =>
    /\ event.outcome = "committed" =>
         ~IsSystemMessage(LastMessage(event.model_id).sender,
                          LastMessage(event.model_id).content)
    /\ \A k \in DOMAIN event.generated.lines :
         IsSystemLine(event.generated.lines[k]) =>
           LineDraft(event.generated.lines[k]) = NoMessage
    /\ \A k \in DOMAIN event.generated.lines :
         (/\ FirstMatch(event.generated.lines[k]) # NoMessage
          /\ ~IsSystemLine(event.generated.lines[k])
          /\ Len(Strip(FirstMatch(event.generated.lines[k]).g4)) >= 2) =>
           LineDraft(event.generated.lines[k]) # NoMessage

\* C17: every message of every room has a sender that is not empty and a
\* content that is stripped and at least 2 characters long.
C17_SendersAndContents ==
  \A r \in DOMAIN chat_messages :
    \A k \in DOMAIN chat_messages[r] :
      /\ chat_messages[r][k].sender # <<>>
      /\ chat_messages[r][k].content = Strip(chat_messages[r][k].content)
      /\ Len(chat_messages[r][k].content) >= 2

\* Two lines that match with the same sender and content: they differ in
\* their date and time at most.
SameButDateTime(line, other) ==
  /\ FirstMatch(line) # NoMessage
  /\ FirstMatch(other) # NoMessage
  /\ FirstMatch(line).g3 = FirstMatch(other).g3
  /\ FirstMatch(line).g4 = FirstMatch(other).g4

\* What an attempt commits for a text when the clock reads now.
Committed(lines, id, now) == Stamp(parse_first_message(lines, id, now), now)

\* C18: the timestamp of a committed generated message is the wall clock read
\* when the attempt accepted it, not the date and time of the generated line:
\* an attempt at the same clock on a text that differs in the date and time of
\* a line only commits the same timestamp, sender and content.
C18_TimestampIsReceiptTime ==
  (IsParsedExit /\ event.outcome = "committed") =>
    /\ LastMessage(event.model_id).timestamp = GetCurrentTimestamp(clock)
    /\ \A k \in DOMAIN event.generated.lines, other \in GeneratedLines :
         SameButDateTime(event.generated.lines[k], other) =>
           /\ parse_first_message([event.generated.lines EXCEPT ![k] = other],
                                  "id", clock) # NoMessage
           /\ Committed([event.generated.lines EXCEPT ![k] = other],
                        LastMessage(event.model_id).id, clock)
                = LastMessage(event.model_id)

\* A message was committed at clock 1 from a line that has another date and
\* time, and a line of the same sender and content but other date and time
\* exists.
C18_Witness ==
  /\ IsParsedExit
  /\ event.outcome = "committed"
  /\ clock = 1
  /\ ValidLines(event.generated.lines) # {}
  /\ LineDraft(event.generated.lines[1]) # NoMessage
  /\ LineDraft(event.generated.lines[1]).timestamp
       # LastMessage(event.model_id).timestamp
  /\ \E other \in GeneratedLines :
       /\ other # event.generated.lines[1]
       /\ SameButDateTime(event.generated.lines[1], other)

\* C19: a step appends messages only by send_chat_message, with isUser true,
\* or by a generation attempt, with isUser false, and changes the isUser of no
\* message a room already holds.
C19_IsUserByOrigin ==
  [][\A r \in (DOMAIN chat_messages) \cap (DOMAIN chat_messages') :
       /\ \A k \in (DOMAIN chat_messages[r]) \cap (DOMAIN chat_messages'[r]) :
            chat_messages'[r][k].isUser = chat_messages[r][k].isUser
       /\ \A k \in (DOMAIN chat_messages'[r]) \ (DOMAIN chat_messages[r]) :
            /\ event'.op \in {"send_chat_message", "generated"}
            /\ chat_messages'[r][k].isUser = (event'.op = "send_chat_message")]_vars

\* An attempt committed a message, isUser false, right after a message that
\* was sent, isUser true.
C19_Witness ==
  /\ event.op = "attempt_exit"
  /\ event.outcome = "committed"
  /\ Len(chat_messages[event.model_id]) >= 2
  /\ ~LastMessage(event.model_id).isUser
  /\ chat_messages[event.model_id][Len(chat_messages[event.model_id]) - 1].isUser
  /\ chat_messages[event.model_id][Len(chat_messages[event.model_id]) - 1].id
       = UuidPool[1]

\* C20: when a send's generation task exists the sent message is in the
\* room and save_chat_storage was called for it (its write, when it completes,
\* leaves the file equal to the memory), and the attempt that task starts
\* builds its context from a sequence that holds the sent message: the context
\* has its line whenever fewer than ContextWindow messages follow it.
C20_SentBeforeTriggered ==
  /\ \A i \in DOMAIN tasks :
       tasks[i].origin = "send" =>
         \E k \in DOMAIN chat_messages[tasks[i].model_id] :
           /\ chat_messages[tasks[i].model_id][k].id = tasks[i].sent
           /\ chat_messages[tasks[i].model_id][k].isUser
  /\ \A i \in DOMAIN attempts :
       attempts[i].sent # None =>
         \E k \in DOMAIN attempts[i].at_start :
           /\ attempts[i].at_start[k].id = attempts[i].sent
           /\ Len(attempts[i].at_start) - k < ContextWindow =>
                Contains(attempts[i].context, RenderContext(<<attempts[i].at_start[k]>>))
  /\ (event.op = "send_chat_message" /\ "success" \in DOMAIN event.response) =>
       /\ LastMessage(event.model_id) = event.response.message
       /\ event.saved \in WriteOutcomes
       /\ event.saved = "ok" => storage = JsonDump(chat_messages)
       /\ tasks # <<>>
       /\ tasks[Len(tasks)].sent = event.response.message.id

\* The attempt a send triggered has built its context, after a second message
\* was sent to the room.
C20_Witness ==
  \E i \in DOMAIN attempts :
    /\ attempts[i].pc = "generate"
    /\ attempts[i].sent = UuidPool[1]
    /\ Len(attempts[i].at_start) >= 2
    /\ attempts[i].at_start[Len(attempts[i].at_start)].id = UuidPool[2]
    /\ Contains(attempts[i].context,
                RenderContext(<<attempts[i].at_start[Len(attempts[i].at_start) - 1]>>))

\* C21: a send to a configured room whose content is absent, empty or only
\* whitespace is answered with the validation error and changes nothing: no
\* room's messages, not the file, and no task is created.
C21_BlankContentRejected ==
  [][(/\ event'.op = "send_chat_message"
      /\ event'.model_id \in CHAT_MODELS
      /\ Strip(DictGet(event'.data, "content", <<>>)) = <<>>) =>
       /\ event'.response = [error |-> "Message content cannot be empty"]
       /\ UNCHANGED <<chat_messages, chat_generating, storage, tasks, attempts,
                      uuid_counter>>]_vars

\* A send of a content of spaces was just refused, in a room that holds
\* messages.
C21_Witness ==
  /\ event.op = "send_chat_message"
  /\ event.model_id \in CHAT_MODELS
  /\ DictGet(event.data, "content", <<>>) # <<>>
  /\ event.response = [error |-> "Message content cannot be empty"]
  /\ chat_messages[event.model_id] # <<>>

\* C22: a request or a generation call for a room id that is not configured
\* is answered with an error, or returns at once, and changes nothing: no
\* room's messages or flag (none is created for the id either), not the file,
\* no task is created and no attempt is started.
C22_UnknownRoomChangesNothing ==
  [][(/\ event'.op \in {"get_chat_messages", "get_chat_status",
                        "send_chat_message", "task_returned"}
      /\ event'.model_id \notin CHAT_MODELS) =>
       /\ event'.op # "task_returned" => "error" \in DOMAIN event'.response
       /\ event'.op # "task_returned" => tasks' = tasks
       /\ event'.op = "task_returned" => event'.why = "unknown model"
       /\ event'.model_id \notin DOMAIN chat_messages'
       /\ event'.model_id \notin DOMAIN chat_generating'
       /\ UNCHANGED <<chat_messages, chat_generating, storage, attempts,
                      uuid_counter>>]_vars

\* The generation coroutine was called for an unknown room and returned,
\* while the configured room holds messages.
C22_Witness ==
  /\ event.op = "task_returned"
  /\ event.model_id \notin CHAT_MODELS
  /\ \E r \in CHAT_MODELS : chat_messages[r] # <<>>
  /\ storage.kind = "json"

\* C23: when the process is killed during a save, the file afterwards is the
\* complete snapshot that was there before or the complete snapshot of what
\* the process held, never a truncated or partial one.
C23_SaveIsAtomic ==
  phase = "killed" =>
    \/ storage = event.file_before
    \/ storage = JsonDump(chat_messages)

\* The attempts that have appended their message and written the file.
SavedAttempts ==
  {i \in DOMAIN attempts : /\ attempts[i].pc = "finally"
                           /\ attempts[i].outcome = "committed"
                           /\ attempts[i].saved = "ok"}

\* The last step was a send that appended its message and wrote the file.
SavedSend ==
  /\ event.op = "send_chat_message"
  /\ "saved" \in DOMAIN event
  /\ event.saved = "ok"

\* C24: once a send or an attempt has appended its message and its write has
\* succeeded, the file holds every room's messages as they are in memory, in
\* the same order.
C24_MutationPersistsAll ==
  (SavedSend \/ SavedAttempts # {}) =>
    /\ storage = JsonDump(chat_messages)
    /\ JsonLoad(storage) = chat_messages

\* An attempt has appended a second message to its room and written the file.
C24_Witness ==
  /\ SavedAttempts # {}
  /\ \E i \in SavedAttempts : Len(chat_messages[attempts[i].model_id]) >= 2
  /\ storage = JsonDump(chat_messages)

\* C25: in every state the process reaches, a save that succeeds followed by
\* a load in a fresh process gives every room the list it had, message for
\* message and in the same order.
C25_SaveLoadRoundTrip ==
  phase \in {"serving", "stopped"} =>
    load_chat_storage(save_chat_storage(chat_messages, storage, "ok")) = chat_messages

\* The shutdown's save succeeded with a room of a sent and a generated
\* message, and a load of the file gives the room back.
C25_Witness ==
  /\ phase = "stopped"
  /\ event.op = "shutdown"
  /\ event.saved = "ok"
  /\ \E r \in CHAT_MODELS :
       /\ \E i \in DOMAIN chat_messages[r] : chat_messages[r][i].isUser
       /\ \E i \in DOMAIN chat_messages[r] : ~chat_messages[r][i].isUser
  /\ load_chat_storage(storage) = chat_messages

\* The file holds what a save writes: an object of arrays of objects that
\* have every key of a message.
WellFormedFile(file) ==
  /\ file.kind = "json"
  /\ \A r \in DOMAIN file.data : \A i \in DOMAIN file.data[r] :
       \A k \in DOMAIN MessageKeys :
         MessageKeys[k] \in DOMAIN LoadObject(file.data[r][i])

\* C26: startup beside no file, beside a file that cannot be parsed, or beside
\* one that is not a mapping from room ids to message sequences, completes
\* and leaves every configured room with an empty list and its flag false.
C26_LoadFallsBack ==
  (event.op = "startup" /\ ~WellFormedFile(storage)) =>
    /\ phase = "serving"
    /\ \A r \in CHAT_MODELS : /\ chat_messages[r] = <<>>
                              /\ chat_generating[r] = FALSE

\* C27: when the write of an append fails, the message stays in memory: the
\* send still answers success and queues its task, the attempt still clears
\* its flag.  The next append whose write succeeds leaves in the file every
\* message in memory, those whose writes failed included.
C27_FailedWritesRecovered ==
  [][/\ (/\ event'.op = "send_chat_message"
         /\ "saved" \in DOMAIN event'
         /\ event'.saved # "ok") =>
          /\ event'.response.success
          /\ chat_messages'[event'.model_id] =
               Append(chat_messages[event'.model_id], event'.response.message)
          /\ tasks' # tasks
     /\ (/\ event'.op = "attempt_exit"
         /\ event'.outcome = "committed"
         /\ event'.saved # "ok") =>
          /\ chat_generating'[event'.model_id] = FALSE
          /\ Len(chat_messages'[event'.model_id]) = Len(event'.at_start) + 1
     /\ (/\ phase = "serving"
         /\ chat_messages' # chat_messages
         /\ \/ event'.op = "send_chat_message" /\ event'.saved = "ok"
            \/ event'.op = "generated" /\ \E i \in DOMAIN attempts' :
                                            attempts'[i].saved = "ok") =>
          /\ \A r \in DOMAIN chat_messages :
               IsPrefix(chat_messages[r], chat_messages'[r])
          /\ storage' = JsonDump(chat_messages')]_vars

\* json.dump raised in a send to a room that holds messages: the file is
\* partial, the message is in memory and the send answered success.
C27_Witness ==
  /\ event.op = "send_chat_message"
  /\ "saved" \in DOMAIN event
  /\ event.saved = "dump_raises"
  /\ storage = PartialFile
  /\ Len(chat_messages[event.model_id]) >= 2
  /\ LastMessage(event.model_id) = event.response.message

\* The startup tasks in the queue, as the rooms they are for.
StartupTriggers == {tasks[i].model_id : i \in {j \in DOMAIN tasks : tasks[j].origin = "startup"}}

\* C28: at startup, as soon as the file is loaded and before any tick, one
\* attempt is triggered for each configured room that was loaded empty and
\* none for a room loaded with messages; and with the ticks, a room comes to
\* hold a message or attempts for it are started again and again for ever,
\* so that a generator that yields a valid line in one of them does not
\* leave the room empty.
C28_EmptyRoomsTriggeredAtStartup ==
  /\ [](event.op = "startup" =>
          /\ StartupTriggers = {r \in CHAT_MODELS : chat_messages[r] = <<>>}
          /\ Len(tasks) = Cardinality(StartupTriggers))
  /\ \A r \in RoomIds :
       \/ <>(r \in DOMAIN chat_messages /\ chat_messages[r] # <<>>)
       \/ []<>(event.op = "attempt_started" /\ event.model_id = r)

\* Startup beside no file has just queued a task for the empty room.
C28_Witness ==
  /\ event.op = "startup"
  /\ event.triggered # {}
  /\ StartupTriggers = event.triggered
  /\ storage = NoFile

\* C29: each tick queues one task for every configured room, in the order of
\* CHAT_MODELS, each of which tests the room's flag before it starts an
\* attempt; and the ticks go on for ever, whether the attempts before them
\* committed, were rejected or raised.
C29_TickTriggersEveryRoom ==
  /\ [][/\ event'.op = "tick" =>
             /\ Len(tasks') = Len(tasks) + Len(ModelOrder)
             /\ SubSeq(tasks', 1, Len(tasks)) = tasks
             /\ \A k \in DOMAIN ModelOrder :
                  /\ tasks'[Len(tasks) + k].model_id = ModelOrder[k]
                  /\ tasks'[Len(tasks) + k].origin = "tick"
        /\ event'.op = "attempt_started" =>
             /\ ~chat_generating[event'.model_id]
             /\ chat_generating'[event'.model_id]]_vars
  /\ []<>(event.op = "tick")

\* A tick has queued its task for a room that is still empty: the attempt
\* triggered at startup raised or was rejected.
C29_Witness ==
  /\ event.op = "tick"
  /\ \E r \in CHAT_MODELS : chat_messages[r] = <<>>
  /\ Len(tasks) = Len(ModelOrder)
  /\ \A i \in DOMAIN tasks : tasks[i].origin = "tick"

\* After lifespan's shutdown no attempt is in flight and no room's flag is
\* true.
StoppedIdle ==
  /\ attempts = <<>>
  /\ \A r \in DOMAIN chat_generating : ~chat_generating[r]

C31_TimeoutIsFailure ==
  /\ [](/\ event.op = "attempt_exit"
        /\ "late" \in DOMAIN event.generated
        => chat_messages[event.model_id] = event.at_start)
  /\ \A r \in RoomIds : [](Generating(r) => <>(~Generating(r)))

\* The task at the head of the queue is a trigger of room b, whose flag is
\* false, while room a has an attempt in flight.
TriggerBesideAttempt(a, b) ==
  /\ a # b
  /\ Generating(a)
  /\ ActiveAttempts(a) # {}
  /\ tasks # <<>>
  /\ Head(tasks).model_id = b
  /\ ~Generating(b)

\* Every room but r has the messages and the flag it had before the step.
OtherRoomsUnchanged(r) ==
  \A b \in (DOMAIN chat_messages) \ {r} :
    /\ chat_messages'[b] = chat_messages[b]
    /\ DictGet(chat_generating', b, FALSE) = DictGet(chat_generating, b, FALSE)

\* A step of an attempt changes its own room only.
AttemptChangesItsRoomOnly ==
  event'.op \in {"attempt_started", "generated", "attempt_exit"} =>
    OtherRoomsUnchanged(event'.model_id)

ContextLine(m) == m.timestamp \o <<" ">> \o m.sender \o <<":", " ">> \o m.content \o <<"\n">>

\* The lines of msgs[j], msgs[j + 1], ... one after the other.
RECURSIVE LinesFrom(_, _)
LinesFrom(msgs, j) ==
  IF j > Len(msgs) THEN <<>> ELSE ContextLine(msgs[j]) \o LinesFrom(msgs, j + 1)

\* How many line ends a text holds.
LineEnds(text) == Cardinality({k \in DOMAIN text : text[k] = "\n"})

\* C33: the context of an attempt is the lines of the last min(10, n) of the n
\* messages its room holds when it starts, oldest first, each as timestamp,
\* sender and content; no older message has its line in it, and an empty room
\* gives an empty context.
C33_ContextIsLastTen ==
  \A i \in DOMAIN attempts :
    attempts[i].pc = "generate" =>
      LET all == attempts[i].at_start
          n == Len(all)
      IN /\ all = chat_messages[attempts[i].model_id]
         /\ attempts[i].context = LinesFrom(all, n - Min(10, n) + 1)
         /\ LineEnds(attempts[i].context) = Min(10, n)
         /\ \A j \in 1..(n - 10) : ~Contains(attempts[i].context, ContextLine(all[j]))
         /\ n = 0 => attempts[i].context = <<>>

\* An attempt has started in a room of more than ten messages, the last of
\* them sent by a user.
C33_Witness ==
  \E i \in DOMAIN attempts :
    /\ attempts[i].pc = "generate"
    /\ Len(attempts[i].at_start) > 10
    /\ attempts[i].at_start[Len(attempts[i].at_start)].isUser
    /\ attempts[i].context # <<>>

\* C34: whatever was sent to a room since an attempt of the room was
\* triggered is still there when the attempt commits: the commit adds the
\* generated message at the tail of the list as it then is, which extends the
\* list the attempt found when it started, and changes nothing before it.
C34_NoLostUpdate ==
  [][(event'.op = "generated" /\ chat_messages' # chat_messages) =>
       \E i \in DOMAIN attempts :
         /\ attempts[i].model_id = event'.model_id
         /\ IsPrefix(attempts[i].at_start, chat_messages[event'.model_id])
         /\ Len(chat_messages'[event'.model_id]) = Len(chat_messages[event'.model_id]) + 1
         /\ IsPrefix(chat_messages[event'.model_id], chat_messages'[event'.model_id])
         /\ ~chat_messages'[event'.model_id][Len(chat_messages'[event'.model_id])].isUser]_vars

\* A user's message was sent while a tick's trigger of the room waited; the
\* tick's attempt has committed: the user's message is the last but one and
\* the generated message the last, and the send's own trigger still waits.
C34_Witness ==
  /\ event.op = "attempt_exit"
  /\ event.outcome = "committed"
  /\ tasks # <<>>
  /\ Head(tasks).origin = "send"
  /\ Head(tasks).overlap
  /\ Head(tasks).model_id = event.model_id
  /\ Len(chat_messages[event.model_id]) >= 2
  /\ chat_messages[event.model_id][Len(chat_messages[event.model_id]) - 1].id = Head(tasks).sent
  /\ ~LastMessage(event.model_id).isUser

\* C35: an attempt runs from its flag set to its flag cleared without giving
\* up the event loop: a request handler or a trigger starts only when no
\* attempt is in flight and no flag is set, so every isGenerating in a
\* response of get_chat_messages or get_chat_status is False and no trigger
\* returns at the single-flight test.
HandlerOps == {"get_chat_messages", "get_chat_status", "send_chat_message",
               "attempt_started", "task_returned", "tick"}

NoAttemptInFlight ==
  /\ attempts = <<>>
  /\ \A r \in DOMAIN chat_generating : ~chat_generating[r]

C35_AttemptsAreAtomic ==
  /\ []((/\ event.op \in {"get_chat_messages", "get_chat_status"}
         /\ "isGenerating" \in DOMAIN event.response)
        => event.response.isGenerating = FALSE)
  /\ [](event.op = "task_returned" => event.why # "generating")
  /\ [][event'.op \in HandlerOps => NoAttemptInFlight]_vars

\* get_chat_status answers for a room whose list already ends with a
\* generated message while the next trigger of the room waits in the queue.
C35_Witness ==
  /\ event.op = "get_chat_status"
  /\ "isGenerating" \in DOMAIN event.response
  /\ event.response.isGenerating = FALSE
  /\ chat_messages[event.model_id] # <<>>
  /\ ~LastMessage(event.model_id).isUser
  /\ \E k \in 1..uuid_counter : LastMessage(event.model_id).id = UuidPool[k]
  /\ \E i \in DOMAIN tasks : tasks[i].model_id = event.model_id

(***************************************************************************)
(* The scheduler, the attempts and POST /api/chat/send under the event     *)
(* loop's scheduling (see Fairness): a request may come or not, a ready    *)
(* task is run, a started attempt runs to its end, the sleep ends.         *)
(***************************************************************************)
NextSend ==
  \/ Startup
  \/ PeriodicTick
  \/ RunTask
  \/ \E i \in DOMAIN attempts, result \in GeneratorOutcomes, write \in WriteOutcomes :
       Generate(i, result, write, clock)
  \/ \E i \in DOMAIN attempts : Finally(i)
  \/ \E model_id \in RequestModelIds, data \in SendBodies, write \in WriteOutcomes :
       SendChatMessage(model_id, data, write, clock)

SpecSend == Init /\ [][NextSend]_vars /\ Fairness

\* The ids uuid.uuid4() gives in a run.
UuidIds == {UuidPool[k] : k \in DOMAIN UuidPool}

\* send_chat_message has just answered success for the message of id u.
SentNow(u) ==
  /\ event.op = "send_chat_message"
  /\ "success" \in DOMAIN event.response
  /\ event.response.message.id = u

\* An attempt of room r has just started and found the message of id u.
AttemptSees(u) ==
  /\ event.op = "attempt_started"
  /\ attempts # <<>>
  /\ attempts[Len(attempts)].model_id = event.model_id
  /\ \E j \in DOMAIN attempts[Len(attempts)].at_start :
       attempts[Len(attempts)].at_start[j].id = u
  /\ \E j \in DOMAIN chat_messages[event.model_id] :
       /\ chat_messages[event.model_id][j].id = u
       /\ chat_messages[event.model_id][j].isUser

\* C36: every message send_chat_message accepted is followed by an attempt of
\* its room that starts after the message was appended, so that the context
\* of the attempt is built from a list that holds the message.
C36_SentIsFollowedByAttempt == \A u \in UuidIds : SentNow(u) ~> AttemptSees(u)

\* The trigger of a send has started its attempt, which found the message.
C36_Witness ==
  /\ \E u \in UuidIds : AttemptSees(u) /\ attempts[Len(attempts)].sent = u
  /\ attempts[Len(attempts)].pc = "generate"

(***************************************************************************)
(* Two workers, as uvicorn --workers starts them: this process and a peer  *)
(* process that runs the same module.  Each has its own chat_messages,     *)
(* chat_generating and event loop; both load and save CHAT_STORAGE_FILE.   *)
(* uuid4 and the wall clock are the machine's.  The writes succeed.        *)
(***************************************************************************)
\* The peer's event loop may run a request handler or its periodic task.
PeerMayRun ==
  /\ peer.state = "serving"
  /\ peer.attempts = <<>>
  /\ \A i \in DOMAIN peer.tasks : peer.tasks[i].origin # "startup"

\* asyncio.create_task for each model_id of ids in turn, in the peer.
RECURSIVE PeerCreateTasks(_, _, _)
PeerCreateTasks(q, ids, origin) ==
  IF ids = <<>> THEN q
  ELSE PeerCreateTasks(Append(q, [model_id |-> Head(ids), origin |-> origin]),
                       Tail(ids), origin)

\* Lines 183-191 in the peer.
PeerStartup ==
  /\ peer = NoPeer
  /\ LET loaded == load_chat_storage(storage)
         empty == {r \in CHAT_MODELS : DictGet(loaded, r, <<>>) = <<>>}
     IN peer' = [state |-> "serving",
                 chat_messages |-> loaded,
                 chat_generating |-> [r \in CHAT_MODELS |-> FALSE],
                 tasks |-> PeerCreateTasks(<<>>, SelectIds(ModelOrder, empty), "startup"),
                 attempts |-> <<>>]
  /\ UNCHANGED <<chat_models, pager, phase, chat_messages, chat_generating, storage, tasks,
                 attempts, uuid_counter, clock, event>>

\* Lines 174-176 in the peer.
PeerTick ==
  /\ PeerMayRun
  /\ \A i \in DOMAIN peer.tasks : peer.tasks[i].origin # "tick"
  /\ Len(peer.tasks) + Len(ModelOrder) <= MaxTasks
  /\ peer' = [peer EXCEPT !.tasks = PeerCreateTasks(@, ModelOrder, "tick")]
  /\ UNCHANGED <<chat_models, pager, phase, chat_messages, chat_generating, storage, tasks,
                 attempts, uuid_counter, clock, event>>

\* Lines 136-149 in the peer; an attempt whose context raises has set and
\* cleared the flag when the coroutine returns.
PeerRunTask ==
  /\ peer.state = "serving"
  /\ peer.tasks # <<>>
  /\ peer.attempts = <<>>
  /\ LET model_id == Head(peer.tasks).model_id
         messages == DictGet(peer.chat_messages, model_id, <<>>)
     IN IF \/ model_id \notin CHAT_MODELS
           \/ DictGet(peer.chat_generating, model_id, FALSE)
           \/ ContextRaises(messages)
        THEN peer' = [peer EXCEPT !.tasks = Tail(@)]
        ELSE peer' = [peer EXCEPT !.tasks = Tail(@),
                                  !.chat_generating = SetFlag(@, model_id),
                                  !.attempts = <<[model_id |-> model_id,
                                                  context |-> BuildContext(messages),
                                                  at_start |-> messages]>>]
  /\ UNCHANGED <<chat_models, pager, phase, chat_messages, chat_generating, storage, tasks,
                 attempts, uuid_counter, clock, event>>

\* Lines 152-168 in the peer: the generator returns or raises, a message found
\* is stamped, appended to the peer's list and saved, the flag is cleared.
PeerGenerate(result) ==
  /\ peer.state = "serving"
  /\ peer.attempts # <<>>
  /\ LET model_id == peer.attempts[1].model_id
         message == IF result.kind = "text"
                    THEN parse_first_message(result.lines, Uuid4, clock)
                    ELSE NoMessage
         stamped == Stamp(message, clock)
         appended == [peer.chat_messages EXCEPT ![model_id] = AppendGenerated(@, stamped)]
         done == [peer EXCEPT !.attempts = <<>>,
                              !.chat_generating = ClearFlag(@, model_id, "")]
     IN IF message = NoMessage
        THEN /\ peer' = done
             /\ UNCHANGED <<storage, uuid_counter>>
        ELSE /\ uuid_counter < MaxUuid
             /\ uuid_counter' = uuid_counter + 1
             /\ peer' = [done EXCEPT !.chat_messages = appended]
             /\ storage' = save_chat_storage(appended, storage, "ok")
  /\ UNCHANGED <<chat_models, pager, phase, chat_messages, chat_generating, tasks, attempts,
                 clock, event>>

\* Lines 705-737 in the peer.
PeerSendChatMessage(model_id, data) ==
  /\ PeerMayRun
  /\ IF model_id \notin CHAT_MODELS \/ ContentIsEmpty(data)
     THEN UNCHANGED <<peer, storage, uuid_counter>>
     ELSE LET message == UserMessage(data, Uuid4, clock)
              appended == [peer.chat_messages EXCEPT ![model_id] = AppendSent(@, message)]
          IN /\ uuid_counter < MaxUuid
             /\ Len(peer.tasks) < MaxTasks
             /\ uuid_counter' = uuid_counter + 1
             /\ storage' = save_chat_storage(appended, storage, "ok")
             /\ peer' = [peer EXCEPT !.chat_messages = appended,
                                     !.tasks = PeerCreateTasks(@, <<model_id>>, "send")]
  /\ UNCHANGED <<chat_models, pager, phase, chat_messages, chat_generating, tasks, attempts,
                 clock, event>>

NextWorkers ==
  \/ Startup
  \/ PeriodicTick
  \/ RunTask
  \/ \E i \in DOMAIN attempts, result \in GeneratorOutcomes : Generate(i, result, "ok", clock)
  \/ \E i \in DOMAIN attempts : Finally(i)
  \/ \E model_id \in RequestModelIds, data \in SendBodies :
       SendChatMessage(model_id, data, "ok", clock)
  \/ PeerStartup
  \/ PeerTick
  \/ PeerRunTask
  \/ \E result \in GeneratorOutcomes : PeerGenerate(result)
  \/ \E model_id \in RequestModelIds, data \in SendBodies : PeerSendChatMessage(model_id, data)

SpecWorkers == Init /\ [][NextWorkers]_vars

\* The ids of the messages a load of the file gives.
PersistedIds(file) ==
  LET loaded == load_chat_storage(file)
  IN UNION {{loaded[r][j].id : j \in DOMAIN loaded[r]} : r \in DOMAIN loaded}

\* The peer's flag of room r.
PeerGenerating(r) == peer.state = "serving" /\ DictGet(peer.chat_generating, r, FALSE)

\* C37: with several workers on one file, every message a worker has saved
\* is in the file after any later save of any worker, and no room has an
\* attempt in flight in two workers at once.
C37_WorkersLoseNothing ==
  /\ [][PersistedIds(storage) \subseteq PersistedIds(storage')]_vars
  /\ [](\A r \in RoomIds : ~(Generating(r) /\ PeerGenerating(r)))

\* Both workers have saved a message of their own since they loaded the file.
C37_Witness ==
  /\ peer.state = "serving"
  /\ phase = "serving"
  /\ \E r \in CHAT_MODELS :
       /\ \E j \in DOMAIN chat_messages[r] :
            chat_messages[r][j].id \in UuidIds
       /\ \E j \in DOMAIN peer.chat_messages[r] :
            /\ peer.chat_messages[r][j].id \in UuidIds
            /\ peer.chat_messages[r][j].id \in PersistedIds(storage)

=============================================================================
